---- MODULE Spec2Model ----
(***************************************************************************)
(* Verification model of GrafanaRunner: the panel navigator                *)
(* (panel_navigator.py), the authentication handler (auth_handler.py) and  *)
(* the rotation loop (grafana_runner.py).                                  *)
(*                                                                         *)
(* Strings that the code searches for substrings (URLs) are modelled as    *)
(* sequences of tokens; a marker is a token sequence and "marker in url"   *)
(* is contiguous-subsequence containment.                                  *)
(***************************************************************************)
EXTENDS Integers, Sequences, FiniteSets, TLC

(***************************************************************************)
(* Bounds of the model                                                     *)
(***************************************************************************)
\* highest value the rotation loop's cycle counter takes in the model
MaxCycles == 3
\* number of browser sessions the model can create
MaxSessions == 2
\* number of configured panels
NumPanels == 2
\* longest tail of a URL handed to _prepare_panel_url
MaxUrlTail == 4
\* most panels in the panels list of a configuration file
MaxConfigPanels == 2

(***************************************************************************)
(* Token strings                                                           *)
(***************************************************************************)
\* python: sub in s
Contains(s, sub) ==
  \E i \in 0..(Len(s) - Len(sub)) :
     \A j \in 1..Len(sub) : s[i + j] = sub[j]

\* python: str.lower() on one token
LowerTok(t) ==
  IF t = "LOGIN" THEN "login"
  ELSE IF t = "OAUTH" THEN "oauth"
  ELSE t

\* python: s.lower()
Lower(s) == [i \in 1..Len(s) |-> LowerTok(s[i])]

\* addresses the browser session can be at
PanelPage    == <<"https://", "agrana.cern.ch", "/", "d">>
GrafanaLogin == <<"https://", "agrana.cern.ch", "/", "login">>
SsoPage      == <<"https://", "auth.cern.ch", "/", "realms">>
UpperLogin   == <<"https://", "agrana.cern.ch", "/", "LOGIN">>
OtherPage    == <<"https://", "localhost", "/", "d">>
Pages == {PanelPage, GrafanaLogin, SsoPage, UpperLogin, OtherPage}

\* panel["url"] values; NoUrl is a panel value without a usable url
NoUrl == <<"<no url>">>
UrlPlain == <<"https://", "agrana.cern.ch", "/", "d">>
UrlQuery == <<"https://", "agrana.cern.ch", "/", "d", "?", "orgId">>
UrlKiosk == <<"https://", "agrana.cern.ch", "/", "d", "?", "kiosk">>
UrlFrag  == <<"https://", "agrana.cern.ch", "/", "d", "#", "tab">>
PanelUrls == {UrlPlain, UrlQuery, UrlKiosk, UrlFrag}

\* value of a local variable that was never assigned
Unbound == <<"<unbound>">>
\* previous_panel=None
NoPanel == [name |-> "None", url |-> NoUrl]
\* previous_panel values of the calls of the model
\* name of a panel value that has no "name" key
NoName == "<no name>"
PreviousPanels == {NoPanel,
                   [name |-> "B", url |-> UrlPlain],
                   [name |-> NoName, url |-> UrlPlain]}
Panels == {[name |-> "A", url |-> UrlQuery],
           [name |-> "C", url |-> NoUrl]}

(***************************************************************************)
(* PanelNavigator._prepare_panel_url                                       *)
(***************************************************************************)
\* index of the first "#" token of url, 0 if none
FirstHash(url) ==
  IF \E i \in 1..Len(url) : url[i] = "#"
  THEN CHOOSE i \in 1..Len(url) :
         url[i] = "#" /\ \A j \in 1..(i - 1) : url[j] # "#"
  ELSE 0

\* variant: the marker is appended without looking for one
_prepare_panel_url_AlwaysAppends(url, grafana_kiosk_mode) ==
  IF grafana_kiosk_mode
  THEN IF FirstHash(url) # 0
       THEN LET h == FirstHash(url)
                base_url == SubSeq(url, 1, h - 1)
                fragment == SubSeq(url, h + 1, Len(url))
                separator == IF Contains(base_url, <<"?">>) THEN "&" ELSE "?"
            IN  base_url \o <<separator, "kiosk", "#">> \o fragment
       ELSE LET separator == IF Contains(url, <<"?">>) THEN "&" ELSE "?"
            IN  url \o <<separator, "kiosk">>
  ELSE url

_prepare_panel_url(url, grafana_kiosk_mode) ==
  IF grafana_kiosk_mode
     /\ ~Contains(url, <<"&", "kiosk">>)
     /\ ~Contains(url, <<"?", "kiosk">>)
  THEN IF FirstHash(url) # 0
       THEN LET h == FirstHash(url)
                base_url == SubSeq(url, 1, h - 1)
                fragment == SubSeq(url, h + 1, Len(url))
                separator == IF Contains(base_url, <<"?">>) THEN "&" ELSE "?"
            IN  base_url \o <<separator, "kiosk", "#">> \o fragment
       ELSE LET separator == IF Contains(url, <<"?">>) THEN "&" ELSE "?"
            IN  url \o <<separator, "kiosk">>
  ELSE url

(***************************************************************************)
(* AuthHandler: pure parts                                                 *)
(***************************************************************************)
login_indicators == {<<"agrana.cern.ch", "/", "login">>,
                     <<"login", "/", "generic_", "oauth">>,
                     <<"auth.cern.ch">>,
                     <<"/", "login">>}

is_login_page(current_url) ==
  \E indicator \in login_indicators : Contains(current_url, indicator)

auth_indicators == {<<"login">>, <<"auth.cern.ch">>, <<"oauth">>, <<"/", "otp">>}

\* variant: the authentication-page markers are not looked at
RedirectDone_DomainOnly(current_url) ==
  Contains(current_url, <<"agrana.cern.ch">>)

\* the loop condition of _wait_for_successful_authentication that returns True
RedirectDone(current_url) ==
  LET is_auth_page == \E indicator \in auth_indicators :
                         Contains(Lower(current_url), indicator)
  IN  ~is_auth_page /\ Contains(current_url, <<"agrana.cern.ch">>)

max_wait_time == 30

\* variant: a login page is not reported when authentication is disabled
CheckOutcome_DisabledPasses(enabled, onLogin) ==
  IF ~enabled
  THEN "true"
  ELSE IF onLogin THEN "delegate" ELSE "true"

\* check_and_handle_authentication: "true", "false", or "delegate" to
\* handle_authentication
CheckOutcome(enabled, onLogin) ==
  IF ~enabled
  THEN IF onLogin THEN "false" ELSE "true"
  ELSE IF onLogin THEN "delegate" ELSE "true"

(***************************************************************************)
(* State                                                                   *)
(***************************************************************************)
VARIABLES
  \* configuration
  grafana_kiosk_mode,   \* config["grafana_kiosk_mode"]
  \* _prepare_panel_url called on its own
  prep_pc,              \* "idle", "input", "prepared", "again"
  prep_url,             \* the url argument of the first call
  prepared_url,         \* what the first call returned
  prepared_again,       \* what the call on prepared_url returned
  \* ConfigManager.load_config
  cfg_pc,               \* "idle", "start", "parsed", "validated", "returned", "raised"
  cfg_file,             \* the file at config_path: "missing", "malformed", "present"
  config,               \* the parsed document
  cfg_error,            \* the ValueError that left load_config
  cfg_panels,           \* config["panels"] of the returned configuration
  cfg_creates,          \* number of create_default_config calls
  cfg_found,            \* what was at config_path when load_config was first called
  \* the browser session handed to the navigator
  current_url,          \* driver.current_url
  otp_field,            \* an element with id "otp" is on the page
  overlay_visible,      \* the transition overlay element is on the page
  overlay_prev,         \* the previous-panel name that overlay shows
  \* one call of PanelNavigator.navigate_to_panel
  nav_pc,               \* position in navigate_to_panel
  nav_panel,            \* argument panel
  nav_auth,             \* an auth_handler argument was supplied
  previous_panel,       \* argument previous_panel
  panel_url,            \* local panel_url (Unbound until assigned)
  skip_overlay,         \* local skip_overlay
  nav_exc,              \* exception in flight: "none", "Timeout", "Exception"
  nav_result,           \* "none", "true", "false", "raised"
  trace,                \* calls and side effects of the current call, in order
  get_url,              \* argument of the driver.get of the current call
  overlay_setting,      \* config["transition_overlay_min_duration"], tenths of a second
  \* AuthHandler
  environ,              \* os.environ, the three credential variables
  constructed,          \* AuthHandler.__init__ has returned
  auth_enabled,         \* self.auth_enabled (FALSE until load_credentials sets it)
  auth_pc,              \* position in check_and_handle / handle_authentication
  check_result,         \* result of check_and_handle_authentication
  handle_result,        \* result of handle_authentication
  wait_end,             \* how _wait_for_successful_authentication ended
  elapsed,              \* time.time() - start_time in the redirect wait
  \* GrafanaRunner (grafana_runner.py)
  run_pc,               \* position in run / setup_browser / refresh_browser
  driver,               \* self.driver (0 is None)
  session,              \* per created browser session: "none", "live", "quit"
  quit_calls,           \* per session: number of driver.quit() calls
  created,              \* the session webdriver.Chrome() returned, not yet stored
  panel_idx,            \* position of the for loop in config["panels"]
  cycles_completed,     \* local cycles_completed
  refresh_after_cycles, \* config["refresh_browser_after_cycles"]
  durations,            \* panel["duration"] per configured panel
  nav_elapsed,          \* seconds the last navigate_to_panel took
  slept,                \* argument of the last time.sleep(duration) in run
  navigated,            \* <<panel, outcome>> of the navigations of the current pass, in order
  setup_from,           \* caller of setup_browser: "run" or "refresh"
  unwinding,            \* exception leaving run's try block: "none", "SystemExit", "Exception"
  exit_code,            \* process exit code, -1 while running
  refresh_log,          \* how the last refresh_browser ended: "none" (running or
                        \* never called), "ok", or the call whose exception was logged
  refresh_old,          \* self.driver when the last refresh_browser was entered
  prev_arg              \* previous panel handed to the last navigation, 0 for none

prepVars == <<prep_pc, prep_url, prepared_url, prepared_again>>
loadVars == <<cfg_pc, cfg_file, config, cfg_error, cfg_panels, cfg_creates,
              cfg_found>>
envVars == <<environ, constructed>>
ovlVars == <<overlay_setting, get_url>>
cfgVars == <<grafana_kiosk_mode, prepVars, loadVars, envVars, ovlVars>>
drvVars == <<current_url, otp_field, overlay_visible, overlay_prev>>
navVars == <<nav_pc, nav_panel, nav_auth, previous_panel, panel_url,
             skip_overlay, nav_exc, nav_result, trace>>
authVars == <<auth_enabled, auth_pc, check_result, handle_result, wait_end,
              elapsed>>
runLog == <<refresh_log, refresh_old, prev_arg>>
runVars == <<run_pc, driver, session, quit_calls, created, panel_idx,
             cycles_completed, refresh_after_cycles, durations, nav_elapsed,
             slept, navigated, setup_from, unwinding, exit_code, runLog>>
vars == <<cfgVars, drvVars, navVars, authVars, runVars>>

(***************************************************************************)
(* The browser: a click or a form submission loads another document        *)
(***************************************************************************)
\* no overlay element, no label
NoLabel == "<none>"

PageLoad ==
  /\ current_url' \in Pages
  /\ otp_field' \in BOOLEAN
  /\ overlay_visible' = FALSE
  /\ overlay_prev' = NoLabel

(***************************************************************************)
(* AuthHandler.__init__ and load_credentials (auth_handler.py 18-66)       *)
(***************************************************************************)
CredentialNames == {"CERN_USERNAME", "CERN_PASSWORD", "CERN_TOTP_SECRET"}
\* os.getenv gives None for a variable that is not set
NotSet == "<None>"
EnvValues == {NotSet, "", "value"}
Environments == [CredentialNames -> EnvValues]
NoEnvironment == [n \in CredentialNames |-> NotSet]
\* the contents of .env.local and of .env: no file, a file with the three
\* variables, a file with the user name only, a file with an empty password
DotenvFiles ==
  { NoEnvironment,
    [n \in CredentialNames |-> "value"],
    [n \in CredentialNames |-> IF n = "CERN_USERNAME" THEN "value" ELSE NotSet],
    [n \in CredentialNames |-> IF n = "CERN_PASSWORD" THEN "" ELSE "value"] }

\* load_dotenv (30, 32) with its default override=False: a variable of the
\* file is set only when the environment does not have it
load_dotenv(env, file) ==
  [n \in CredentialNames |-> IF env[n] = NotSet THEN file[n] ELSE env[n]]

\* truth value of what os.getenv returns: None and "" are false
Truthy(v) == v \notin {NotSet, ""}

\* variant: the one-time secret is not required
AllPresent_SecretOptional(username, password, totp_secret) ==
  Truthy(username) /\ Truthy(password)

\* line 43: all([self.username, self.password, self.totp_secret])
AllPresent(username, password, totp_secret) ==
  Truthy(username) /\ Truthy(password) /\ Truthy(totp_secret)

\* __init__ 18-22 with load_credentials 24-66: the dotenv files are read when
\* python-dotenv is installed, .env only when .env.local left the user name
\* unset or empty; then the three variables are read and auth_enabled is set
LoadCredentials ==
  /\ ~constructed
  /\ \E dotenv \in BOOLEAN, env_local \in DotenvFiles, env \in DotenvFiles :
       LET e1 == IF dotenv THEN load_dotenv(environ, env_local) ELSE environ
           e2 == IF dotenv /\ ~Truthy(e1["CERN_USERNAME"])
                 THEN load_dotenv(e1, env) ELSE e1
       IN /\ environ' = e2
          /\ auth_enabled' = AllPresent(e2["CERN_USERNAME"],
                                        e2["CERN_PASSWORD"],
                                        e2["CERN_TOTP_SECRET"])
  /\ constructed' = TRUE
  /\ UNCHANGED <<auth_pc, check_result, handle_result, wait_end, elapsed>>
  /\ UNCHANGED <<grafana_kiosk_mode, prepVars, loadVars, ovlVars>>
  /\ UNCHANGED <<drvVars, navVars, runVars>>

(***************************************************************************)
(* AuthHandler.check_and_handle_authentication (auth_handler.py 269-282)   *)
(* auth_pc: "idle" -> "check" -> ("sso" -> "fill" -> "totp_check" ->       *)
(*          "totp" -> "wait" -> "finish" -> "return") -> "done"            *)
(***************************************************************************)
\* is_login_page reads driver.current_url, which raises when the session is
\* unreachable; the exception leaves check_and_handle_authentication
AuthCheck ==
  /\ auth_pc = "check"
  /\ \E raises \in BOOLEAN :
       IF raises
       THEN /\ check_result' = "raised"
            /\ auth_pc' = "done"
            /\ UNCHANGED trace
       ELSE LET outcome == CheckOutcome(auth_enabled, is_login_page(current_url))
            IN  IF outcome = "delegate"
                THEN /\ auth_pc' = "sso"
                     /\ trace' = Append(trace, "handle_authentication")
                     /\ UNCHANGED check_result
                ELSE /\ auth_pc' = "done"
                     /\ check_result' = outcome
                     /\ trace' = IF outcome = "false"
                                 THEN Append(trace, "log_warning") ELSE trace
  /\ UNCHANGED <<handle_result, wait_end, elapsed, auth_enabled>>
  /\ UNCHANGED <<nav_pc, nav_panel, nav_auth, previous_panel, panel_url,
                 skip_overlay, nav_exc, nav_result>>
  /\ UNCHANGED <<cfgVars, drvVars, runVars>>

\* _click_cern_sso_login 129-133: the three entries of sso_selectors
NumSelectors == 3

\* what one iteration of the loop over sso_selectors (135-152) can do:
\*   "no_match"      the wait for a clickable element raises TimeoutException
\*   "click_timeout" the element is clicked and element.click() raises
\*                   TimeoutException (the page load the click starts exceeds
\*                   the page-load timeout); except TimeoutException: continue
\*   "clicked"       the element is clicked, return True
\*   "error"         any other exception, return False (159-161)
SelectorOutcomes == {"no_match", "click_timeout", "clicked", "error"}
Ends(outcome) == outcome \in {"clicked", "error"}

\* the runs of the loop: it goes on to the next selector after a
\* TimeoutException and stops at the first return
SsoRuns ==
  {run \in UNION {[1..n -> SelectorOutcomes] : n \in 1..NumSelectors} :
     /\ \A i \in 1..(Len(run) - 1) : ~Ends(run[i])
     /\ Len(run) < NumSelectors => Ends(run[Len(run)])}

\* the runs in which no element.click() raises TimeoutException
SsoRunsClickReturns ==
  {run \in SsoRuns : \A i \in 1..Len(run) : run[i] # "click_timeout"}

\* the trace of a run of _click_cern_sso_login and of the time.sleep(2) that
\* follows a True result (101-103).  "raise_sso", "raise_fill" and
\* "raise_totp" in the trace record that the step raised an exception.
RECURSIVE SsoEvents(_)
SsoEvents(run) ==
  IF run = <<>> THEN <<"raise_sso", "log_warning">>
  ELSE CASE run[1] = "clicked" -> <<"click_sso", "sleep_2">>
         [] run[1] = "error" -> <<"raise_sso", "log_error">>
         [] run[1] = "click_timeout" -> <<"click_sso">> \o SsoEvents(Tail(run))
         [] run[1] = "no_match" -> SsoEvents(Tail(run))

\* _click_cern_sso_login (126-161) and lines 101-103 of handle_authentication,
\* for the given runs of the selector loop; a click loads another document
AuthSsoWith(runs) ==
  /\ auth_pc = "sso"
  /\ \E run \in runs :
       /\ trace' = trace \o SsoEvents(run)
       /\ IF \E i \in 1..Len(run) : run[i] \in {"clicked", "click_timeout"}
          THEN PageLoad
          ELSE UNCHANGED drvVars
  /\ auth_pc' = "fill"
  /\ UNCHANGED <<check_result, handle_result, wait_end, elapsed, auth_enabled>>
  /\ UNCHANGED <<nav_pc, nav_panel, nav_auth, previous_panel, panel_url,
                 skip_overlay, nav_exc, nav_result>>
  /\ UNCHANGED <<cfgVars, runVars>>

\* the SSO step when every element.click() returns
AuthSso == AuthSsoWith(SsoRunsClickReturns)

\* the SSO step with every run of the selector loop
AuthSsoAny == AuthSsoWith(SsoRuns)

\* _fill_login_credentials (163-195)
AuthFill ==
  /\ auth_pc = "fill"
  /\ \E outcome \in {"submitted", "no_username", "no_password", "error"} :
       CASE outcome = "submitted" ->
              /\ trace' = trace \o <<"type_username", "type_password",
                                     "submit_login", "sleep_2">>
              /\ PageLoad
         [] outcome = "no_password" ->
              /\ trace' = trace \o <<"type_username", "raise_fill",
                                     "log_warning">>
              /\ UNCHANGED drvVars
         [] outcome = "no_username" ->
              /\ trace' = trace \o <<"raise_fill", "log_warning">>
              /\ UNCHANGED drvVars
         [] outcome = "error" ->
              /\ trace' = trace \o <<"raise_fill", "log_error">>
              /\ UNCHANGED drvVars
  /\ auth_pc' = "totp_check"
  /\ UNCHANGED <<check_result, handle_result, wait_end, elapsed, auth_enabled>>
  /\ UNCHANGED <<nav_pc, nav_panel, nav_auth, previous_panel, panel_url,
                 skip_overlay, nav_exc, nav_result>>
  /\ UNCHANGED <<cfgVars, runVars>>

\* variant: handle_authentication has no except clause
HandleExcept_Propagates(raisedBy) == "raised"

\* handle_authentication 122-124: an exception that reaches the except
\* clause, whatever raised it, is logged and the call returns False
HandleExcept(raisedBy) == "false"

\* handle_authentication 110-111: is_totp_page (85-93); an exception other
\* than NoSuchElementException reaches the except clause of
\* handle_authentication (122-124)
AuthTotpCheck ==
  /\ auth_pc = "totp_check"
  /\ \E raises \in BOOLEAN :
       IF raises
       THEN /\ handle_result' = HandleExcept("is_totp_page")
            /\ trace' = trace \o <<"raise_totp", "log_error">>
            /\ auth_pc' = "return"
       ELSE /\ auth_pc' = IF otp_field THEN "totp" ELSE "wait"
            /\ UNCHANGED <<handle_result, trace>>
  /\ elapsed' = 0
  /\ UNCHANGED <<check_result, wait_end, auth_enabled>>
  /\ UNCHANGED <<nav_pc, nav_panel, nav_auth, previous_panel, panel_url,
                 skip_overlay, nav_exc, nav_result>>
  /\ UNCHANGED <<cfgVars, drvVars, runVars>>

\* _handle_totp_authentication (208-235): every exception is logged and
\* re-raised, and handle_authentication turns it into False (122-124)
AuthTotp ==
  /\ auth_pc = "totp"
  /\ \E outcome \in {"submitted", "gen_error", "no_field", "no_form"} :
       CASE outcome = "submitted" ->
              /\ trace' = trace \o <<"generate_totp", "type_otp",
                                     "submit_otp", "sleep_3">>
              /\ PageLoad
              /\ auth_pc' = "wait"
              /\ UNCHANGED handle_result
         [] outcome = "gen_error" ->
              /\ trace' = trace \o <<"raise_totp", "log_error", "log_error">>
              /\ UNCHANGED drvVars
              /\ auth_pc' = "return"
              /\ handle_result' = HandleExcept(outcome)
         [] outcome = "no_field" ->
              /\ trace' = trace \o <<"generate_totp", "raise_totp", "log_error",
                                     "log_error">>
              /\ UNCHANGED drvVars
              /\ auth_pc' = "return"
              /\ handle_result' = HandleExcept(outcome)
         [] outcome = "no_form" ->
              /\ trace' = trace \o <<"generate_totp", "type_otp", "raise_totp",
                                     "log_error", "log_error">>
              /\ UNCHANGED drvVars
              /\ auth_pc' = "return"
              /\ handle_result' = HandleExcept(outcome)
  /\ UNCHANGED <<check_result, wait_end, elapsed, auth_enabled>>
  /\ UNCHANGED <<nav_pc, nav_panel, nav_auth, previous_panel, panel_url,
                 skip_overlay, nav_exc, nav_result>>
  /\ UNCHANGED <<cfgVars, runVars>>

\* _wait_for_successful_authentication (237-267), one iteration of the loop:
\* the identity provider may have redirected the browser since the last poll
AuthWaitPoll ==
  /\ auth_pc = "wait"
  /\ IF elapsed < max_wait_time
     THEN \E raises \in BOOLEAN :
            /\ current_url' \in Pages
            /\ UNCHANGED <<otp_field, overlay_visible, overlay_prev>>
            /\ IF raises
               THEN /\ wait_end' = "error"
                    /\ auth_pc' = "finish"
                    /\ UNCHANGED elapsed
               ELSE IF RedirectDone(current_url')
                    THEN /\ wait_end' = "success"
                         /\ auth_pc' = "finish"
                         /\ UNCHANGED elapsed
                    ELSE /\ elapsed' = elapsed + 1
                         /\ UNCHANGED <<wait_end, auth_pc>>
     ELSE /\ wait_end' = "timeout"
          /\ auth_pc' = "finish"
          /\ UNCHANGED <<elapsed, drvVars>>
  /\ UNCHANGED <<check_result, handle_result, auth_enabled, trace>>
  /\ UNCHANGED <<nav_pc, nav_panel, nav_auth, previous_panel, panel_url,
                 skip_overlay, nav_exc, nav_result>>
  /\ UNCHANGED <<cfgVars, runVars>>

\* handle_authentication 117-120: the value of
\* self._wait_for_successful_authentication(driver) is not used
HandleReturn(waitEnd) == "true"

AuthFinish ==
  /\ auth_pc = "finish"
  /\ handle_result' = HandleReturn(wait_end)
  /\ trace' = Append(trace, "log_info")
  /\ auth_pc' = "return"
  /\ UNCHANGED <<check_result, wait_end, elapsed, auth_enabled>>
  /\ UNCHANGED <<nav_pc, nav_panel, nav_auth, previous_panel, panel_url,
                 skip_overlay, nav_exc, nav_result>>
  /\ UNCHANGED <<cfgVars, drvVars, runVars>>

\* check_and_handle_authentication 281: return self.handle_authentication(driver)
AuthReturn ==
  /\ auth_pc = "return"
  /\ check_result' = handle_result
  /\ auth_pc' = "done"
  /\ UNCHANGED <<handle_result, wait_end, elapsed, auth_enabled, trace>>
  /\ UNCHANGED <<nav_pc, nav_panel, nav_auth, previous_panel, panel_url,
                 skip_overlay, nav_exc, nav_result>>
  /\ UNCHANGED <<cfgVars, drvVars, runVars>>

(***************************************************************************)
(* PanelNavigator.navigate_to_panel (panel_navigator.py 19-121)            *)
(* nav_pc: "idle" -> "prepare" -> "decide" -> ("show" -> "hold") -> "get"  *)
(*         -> "wait" -> ("auth" -> "auth_wait") -> "settle" -> "returned", *)
(*         with "except" entered from any step that raises                 *)
(***************************************************************************)
\* the caller invokes navigate_to_panel(driver, panel, auth_handler, previous_panel)
NavCallWith(previous_panels) ==
  /\ nav_pc = "idle"
  /\ constructed
  /\ nav_panel' \in Panels
  /\ nav_auth' \in BOOLEAN
  /\ previous_panel' \in previous_panels
  /\ nav_pc' = "prepare"
  /\ panel_url' = Unbound
  /\ skip_overlay' = FALSE
  /\ nav_exc' = "none"
  /\ nav_result' = "none"
  /\ trace' = <<>>
  /\ auth_pc' = "idle"
  /\ check_result' = "none"
  /\ handle_result' = "none"
  /\ wait_end' = "none"
  /\ elapsed' = 0
  /\ get_url' = Unbound
  /\ UNCHANGED <<grafana_kiosk_mode, prepVars, loadVars, envVars,
                 overlay_setting>>
  /\ UNCHANGED <<auth_enabled, drvVars, runVars>>

\* a call that leaves previous_panel at its default None
NavCall == NavCallWith({NoPanel})

\* a call with any previous_panel argument
NavCallAfter == NavCallWith(PreviousPanels)

\* line 23: panel["url"] raises when the panel has no url, before panel_url
\* is assigned
NavPrepare ==
  /\ nav_pc = "prepare"
  /\ IF nav_panel.url = NoUrl
     THEN /\ nav_exc' = "Exception"
          /\ nav_pc' = "except"
          /\ UNCHANGED <<panel_url, trace>>
     ELSE /\ panel_url' = _prepare_panel_url(nav_panel.url, grafana_kiosk_mode)
          /\ trace' = Append(trace, "log_info")
          /\ nav_pc' = "decide"
          /\ UNCHANGED nav_exc
  /\ UNCHANGED <<nav_panel, nav_auth, previous_panel, skip_overlay, nav_result>>
  /\ UNCHANGED <<cfgVars, drvVars, authVars, runVars>>

\* variant: the overlay is also skipped when no handler is supplied
SkipOverlay_NoHandlerSkips(hasAuth, enabled, onLogin, onTotp) ==
  IF hasAuth
  THEN IF ~enabled THEN TRUE
       ELSE IF onLogin \/ onTotp THEN TRUE
       ELSE FALSE
  ELSE TRUE

\* lines 30-46: the value of skip_overlay
SkipOverlay(hasAuth, enabled, onLogin, onTotp) ==
  IF hasAuth
  THEN IF ~enabled THEN TRUE
       ELSE IF onLogin \/ onTotp THEN TRUE
       ELSE FALSE
  ELSE FALSE

\* lines 29-46; is_login_page and is_totp_page are evaluated only with a
\* handler whose authentication is enabled, and either may raise
NavDecide ==
  /\ nav_pc = "decide"
  /\ \E raises \in BOOLEAN :
       IF raises /\ nav_auth /\ auth_enabled
       THEN /\ nav_exc' = "Exception"
            /\ nav_pc' = "except"
            /\ UNCHANGED skip_overlay
       ELSE /\ ~raises
            /\ skip_overlay' = SkipOverlay(nav_auth, auth_enabled,
                                           is_login_page(current_url), otp_field)
            /\ nav_pc' = IF skip_overlay' THEN "get" ELSE "show"
            /\ UNCHANGED nav_exc
  /\ UNCHANGED <<nav_panel, nav_auth, previous_panel, panel_url, nav_result,
                 trace>>
  /\ UNCHANGED <<cfgVars, drvVars, authVars, runVars>>

\* variant: the overlay always names "Starting" as the previous panel
prev_name_AlwaysStarting(panel) == "Starting"

\* show_transition_overlay 147-149:
\* previous_panel.get("name", "Starting") if previous_panel else "Starting"
prev_name(panel) ==
  IF panel = NoPanel THEN "Starting"
  ELSE IF panel.name = NoName THEN "Starting"
  ELSE panel.name

\* variant: a failing overlay script leaves navigate_to_panel's try block
AfterShow_Propagates(script_ok) == IF script_ok THEN "hold" ELSE "except"

\* show_transition_overlay 352-353: except Exception logs a warning and the
\* call returns normally, so navigate_to_panel goes on to the hold (79-83)
AfterShow(script_ok) == "hold"

\* show_transition_overlay (143-353): the script replaces any overlay of the
\* page by the new one; a failing script is logged, not raised
NavShow ==
  /\ nav_pc = "show"
  /\ \E script_ok \in BOOLEAN :
       /\ overlay_visible' = (overlay_visible \/ script_ok)
       /\ overlay_prev' = IF script_ok THEN prev_name(previous_panel)
                          ELSE overlay_prev
       /\ trace' = IF script_ok
                   THEN trace \o <<"show_overlay", "overlay_script">>
                   ELSE trace \o <<"show_overlay", "log_warning">>
       /\ nav_pc' = AfterShow(script_ok)
  /\ UNCHANGED <<current_url, otp_field>>
  /\ UNCHANGED <<nav_panel, nav_auth, previous_panel, panel_url, skip_overlay,
                 nav_exc, nav_result>>
  /\ UNCHANGED <<cfgVars, authVars, runVars>>

\* the config of the model leaves the key out or sets it to 0.5 s
NoSetting == -1
OverlaySettings == {NoSetting, 5}

\* variant: no default, a missing key gives no hold at all
min_overlay_duration_NoDefault(setting) ==
  IF setting = NoSetting THEN 0 ELSE setting

\* lines 72-74: self.config.get("transition_overlay_min_duration", 2.0)
min_overlay_duration(setting) ==
  IF setting = NoSetting THEN 20 ELSE setting

\* the event of a time.sleep of the given number of tenths of a second
SleepEvent(tenths) ==
  IF tenths = 20 THEN "slept_2.0"
  ELSE IF tenths = 5 THEN "slept_0.5"
  ELSE "slept_other"

\* lines 72-83: time.sleep(min_overlay_duration)
NavHold ==
  /\ nav_pc = "hold"
  /\ trace' = trace \o <<"hold",
                         SleepEvent(min_overlay_duration(overlay_setting))>>
  /\ nav_pc' = "get"
  /\ UNCHANGED <<nav_panel, nav_auth, previous_panel, panel_url, skip_overlay,
                 nav_exc, nav_result>>
  /\ UNCHANGED <<cfgVars, drvVars, authVars, runVars>>

\* lines 51 and 86: driver.get(panel_url)
NavGet ==
  /\ nav_pc = "get"
  /\ \E outcome \in {"ok", "Timeout", "Exception"} :
       IF outcome = "ok"
       THEN /\ PageLoad
            /\ trace' = Append(trace, "get")
            /\ nav_pc' = "wait"
            /\ UNCHANGED nav_exc
       ELSE /\ nav_exc' = outcome
            /\ nav_pc' = "except"
            /\ trace' = Append(trace, "get")
            /\ UNCHANGED drvVars
  /\ get_url' = panel_url
  /\ UNCHANGED <<nav_panel, nav_auth, previous_panel, panel_url, skip_overlay,
                 nav_result>>
  /\ UNCHANGED <<grafana_kiosk_mode, prepVars, loadVars, envVars,
                 overlay_setting>>
  /\ UNCHANGED <<authVars, runVars>>

\* lines 54-57 and 89-92: WebDriverWait(driver, 10).until(readyState complete)
NavWait ==
  /\ nav_pc = "wait"
  /\ \E outcome \in {"ok", "Timeout", "Exception"} :
       IF outcome = "ok"
       THEN /\ nav_pc' = IF nav_auth THEN "auth" ELSE "settle"
            /\ trace' = trace \o <<"wait", "loaded">>
            /\ UNCHANGED nav_exc
       ELSE /\ nav_exc' = outcome
            /\ nav_pc' = "except"
            /\ trace' = trace \o <<"wait", IF outcome = "Timeout"
                                           THEN "wait_timeout"
                                           ELSE "wait_error">>
  /\ UNCHANGED <<nav_panel, nav_auth, previous_panel, panel_url, skip_overlay,
                 nav_result>>
  /\ UNCHANGED <<cfgVars, drvVars, authVars, runVars>>

\* lines 60 and 95: auth_handler.check_and_handle_authentication(driver)
NavAuthCall ==
  /\ nav_pc = "auth"
  /\ nav_pc' = "auth_wait"
  /\ auth_pc' = "check"
  /\ trace' = Append(trace, "check_auth")
  /\ UNCHANGED <<check_result, handle_result, wait_end, elapsed, auth_enabled>>
  /\ UNCHANGED <<nav_panel, nav_auth, previous_panel, panel_url, skip_overlay,
                 nav_exc, nav_result>>
  /\ UNCHANGED <<cfgVars, drvVars, runVars>>

\* variant: the result of the authentication check is not tested
AuthCheckFailed_Ignored(result) == FALSE

\* lines 60 and 95: not auth_handler.check_and_handle_authentication(driver)
AuthCheckFailed(result) == result = "false"

\* lines 60-66 and 95-101: the result of the authentication check
NavAuthReturn ==
  /\ nav_pc = "auth_wait"
  /\ auth_pc = "done"
  /\ auth_pc' = "idle"
  /\ CASE check_result = "raised" ->
            /\ nav_exc' = "Exception"
            /\ nav_pc' = "except"
            /\ UNCHANGED <<nav_result, trace>>
       [] check_result # "raised" /\ AuthCheckFailed(check_result) ->
            /\ trace' = Append(trace, "log_error")
            /\ nav_result' = "false"
            /\ nav_pc' = "returned"
            /\ UNCHANGED nav_exc
       [] check_result # "raised" /\ ~AuthCheckFailed(check_result) ->
            /\ nav_pc' = "settle"
            /\ UNCHANGED <<nav_exc, nav_result, trace>>
  /\ UNCHANGED <<check_result, handle_result, wait_end, elapsed, auth_enabled>>
  /\ UNCHANGED <<nav_panel, nav_auth, previous_panel, panel_url, skip_overlay>>
  /\ UNCHANGED <<cfgVars, drvVars, runVars>>

\* lines 103-112: time.sleep(3); return True
NavSettle ==
  /\ nav_pc = "settle"
  /\ trace' = Append(trace, "settle")
  /\ nav_result' = "true"
  /\ nav_pc' = "returned"
  /\ UNCHANGED <<nav_panel, nav_auth, previous_panel, panel_url, skip_overlay,
                 nav_exc>>
  /\ UNCHANGED <<cfgVars, drvVars, authVars, runVars>>

\* variant: the except clause logs and does not hide the overlay
ExceptEvents_NoHide(exc, script_ok) ==
  << IF exc = "Timeout" THEN "log_warning" ELSE "log_error" >>

\* lines 114-121: what an except clause does once its message is formatted:
\* log (warning for TimeoutException, error otherwise), hide_transition_overlay
ExceptEvents(exc, script_ok) ==
  << IF exc = "Timeout" THEN "log_warning" ELSE "log_error", "hide_overlay" >>
  \o (IF script_ok THEN <<>> ELSE <<"log_warning">>)

\* lines 114-121: both except clauses format panel_url into the log message;
\* when line 23 raised, panel_url is unbound and the clause itself raises
\* UnboundLocalError, which leaves navigate_to_panel.
\* hide_transition_overlay (355-384) swallows a failing script.
NavExcept ==
  /\ nav_pc = "except"
  /\ IF panel_url = Unbound
     THEN /\ nav_result' = "raised"
          /\ UNCHANGED <<trace, drvVars>>
     ELSE \E script_ok \in BOOLEAN :
            /\ nav_result' = "false"
            /\ trace' = trace \o ExceptEvents(nav_exc, script_ok)
            /\ overlay_visible' = (overlay_visible /\ ~script_ok)
            /\ overlay_prev' = IF overlay_visible' THEN overlay_prev ELSE NoLabel
            /\ UNCHANGED <<current_url, otp_field>>
  /\ nav_pc' = "returned"
  /\ UNCHANGED <<nav_panel, nav_auth, previous_panel, panel_url, skip_overlay,
                 nav_exc>>
  /\ UNCHANGED <<cfgVars, authVars, runVars>>

\* the call is over; the caller may call again
NavDone ==
  /\ nav_pc = "returned"
  /\ nav_pc' = "idle"
  /\ UNCHANGED <<nav_panel, nav_auth, previous_panel, panel_url, skip_overlay,
                 nav_exc, nav_result, trace>>
  /\ UNCHANGED <<cfgVars, drvVars, authVars, runVars>>

(***************************************************************************)
(* GrafanaRunner (grafana_runner.py).  Times are in units of 0.5 s.        *)
(***************************************************************************)
Sessions == 1..MaxSessions
PanelIdx == 1..NumPanels
\* panel["duration"] values of the model: 1 s and 3 s
Durations == {2, 6}
\* time a navigation can take: 0.5 s and 4 s
NavTimes == {1, 8}

\* variant: quit returns without closing the browser
Quit_LeavesSessionOpen(s, raises) ==
  /\ quit_calls' = [quit_calls EXCEPT ![s] = @ + 1]
  /\ session' = session

\* driver.quit() on session s: the call is counted; it ends a live session
\* unless it raises, and then the session may or may not be gone
Quit(s, raises) ==
  /\ quit_calls' = [quit_calls EXCEPT ![s] = @ + 1]
  /\ IF raises
     THEN session' \in {session, [session EXCEPT ![s] = "quit"]}
     ELSE session' = [session EXCEPT ![s] = "quit"]

\* cleanup (474-481): quits self.driver if set; an exception is logged
Cleanup ==
  IF driver # 0
  THEN \E raises \in BOOLEAN : Quit(driver, raises)
  ELSE UNCHANGED <<session, quit_calls>>

\* run 426-427: the try block is entered and setup_browser called
RunStart ==
  /\ run_pc = "init"
  /\ run_pc' = "setup_create"
  /\ setup_from' = "run"
  /\ UNCHANGED <<driver, session, quit_calls, created, panel_idx,
                 cycles_completed, refresh_after_cycles, durations,
                 nav_elapsed, slept, navigated, unwinding, exit_code>>
  /\ UNCHANGED runLog
  /\ UNCHANGED <<cfgVars, drvVars, navVars, authVars>>

\* variant: refresh_browser has no except clause
SetupFailed_RefreshPropagates ==
  /\ run_pc' = "finally"
  /\ unwinding' = "Exception"
  /\ UNCHANGED panel_idx

\* where an exception raised inside setup_browser lands: run's except/finally
\* (453-457) or refresh_browser's except (465-466), which returns to the loop
SetupFailed ==
  IF setup_from = "run"
  THEN /\ run_pc' = "finally"
       /\ unwinding' = "Exception"
       /\ UNCHANGED panel_idx
  ELSE /\ run_pc' = "nav"
       /\ panel_idx' = 1
       /\ UNCHANGED unwinding

\* refresh_browser 465-466 logs the exception that ended it ("Error refreshing
\* browser: ..."); setup_browser called from run leaves no refresh record
RefreshLogged(how) == IF setup_from = "refresh" THEN how ELSE refresh_log

\* setup_chrome / setup_firefox (116-121, 245, 290): webdriver.Chrome(options)
\* starts a browser session and returns it
SetupCreate ==
  /\ run_pc = "setup_create"
  /\ \/ \E s \in Sessions :
          /\ session[s] = "none"
          /\ \A t \in Sessions : t < s => session[t] # "none"
          /\ session' = [session EXCEPT ![s] = "live"]
          /\ created' = s
          /\ run_pc' = "setup_assign"
          /\ UNCHANGED <<unwinding, panel_idx, refresh_log>>
     \/ /\ SetupFailed
        /\ refresh_log' = RefreshLogged("create_raised")
        /\ UNCHANGED <<session, created>>
  /\ UNCHANGED <<driver, quit_calls, cycles_completed, refresh_after_cycles,
                 durations, nav_elapsed, slept, navigated, setup_from,
                 exit_code>>
  /\ UNCHANGED <<refresh_old, prev_arg>>
  /\ UNCHANGED <<cfgVars, drvVars, navVars, authVars>>

\* 117/119: self.driver = <the session returned>
SetupAssign ==
  /\ run_pc = "setup_assign"
  /\ driver' = created
  /\ created' = 0
  /\ run_pc' = "setup_config"
  /\ UNCHANGED <<session, quit_calls, panel_idx, cycles_completed,
                 refresh_after_cycles, durations, nav_elapsed, slept,
                 navigated, setup_from, unwinding, exit_code>>
  /\ UNCHANGED runLog
  /\ UNCHANGED <<cfgVars, drvVars, navVars, authVars>>

\* 123-139: timeouts and fullscreen on the new session, any of which may
\* raise WebDriverException; then back to the caller (run 428-431 or
\* refresh_browser)
SetupConfig ==
  /\ run_pc = "setup_config"
  /\ \/ /\ run_pc' = "nav"
        /\ panel_idx' = 1
        /\ cycles_completed' = IF setup_from = "run" THEN 0 ELSE cycles_completed
        /\ refresh_log' = RefreshLogged("ok")
        /\ UNCHANGED unwinding
     \/ /\ SetupFailed
        /\ refresh_log' = RefreshLogged("config_raised")
        /\ UNCHANGED cycles_completed
  /\ UNCHANGED <<driver, session, quit_calls, created, refresh_after_cycles,
                 durations, nav_elapsed, slept, navigated, setup_from,
                 exit_code>>
  /\ UNCHANGED <<refresh_old, prev_arg>>
  /\ UNCHANGED <<cfgVars, drvVars, navVars, authVars>>

\* variant: only TimeoutException is caught
NavigatePropagates_OnlyTimeoutCaught(outcome) == outcome = "Exception"

\* navigate_to_panel 346-349: TimeoutException and Exception are both caught
NavigatePropagates(outcome) == FALSE

\* run 433 with navigate_to_panel (327-349): driver.get, page-load wait and
\* settle delay; TimeoutException and Exception are logged and not raised.
\* The call is navigate_to_panel(panel): no previous panel is handed over.
\* A session that is not live cannot load the page.
RunNavigate ==
  /\ run_pc = "nav"
  /\ \E outcome \in {"ok", "Timeout", "Exception"} :
       /\ outcome = "ok" => session[driver] = "live"
       /\ navigated' = Append(navigated, <<panel_idx, outcome>>)
       /\ IF NavigatePropagates(outcome)
          THEN /\ run_pc' = "finally"
               /\ unwinding' = "Exception"
          ELSE /\ run_pc' = "sleep"
               /\ UNCHANGED unwinding
  /\ nav_elapsed' \in NavTimes
  /\ UNCHANGED <<driver, session, quit_calls, created, panel_idx,
                 cycles_completed, refresh_after_cycles, durations, slept,
                 setup_from, exit_code>>
  /\ prev_arg' = 0
  /\ UNCHANGED <<refresh_log, refresh_old>>
  /\ UNCHANGED <<cfgVars, drvVars, navVars, authVars>>

\* run 436-438: the argument of time.sleep
DisplayTime(duration, elapsedNavigationTime) == duration

\* run 436-438, and the for loop's step (432)
RunSleep ==
  /\ run_pc = "sleep"
  /\ slept' = DisplayTime(durations[panel_idx], nav_elapsed)
  /\ IF panel_idx < NumPanels
     THEN /\ panel_idx' = panel_idx + 1
          /\ run_pc' = "nav"
     ELSE /\ run_pc' = "cycle_end"
          /\ UNCHANGED panel_idx
  /\ UNCHANGED <<driver, session, quit_calls, created, cycles_completed,
                 refresh_after_cycles, durations, nav_elapsed, navigated,
                 setup_from, unwinding, exit_code>>
  /\ UNCHANGED runLog
  /\ UNCHANGED <<cfgVars, drvVars, navVars, authVars>>

\* variant: the refresh is due one pass early
RefreshDue_OffByOne(cycles, refresh_after) ==
  refresh_after > 0 /\ (cycles + 1) % refresh_after = 0

\* run 444-447: the condition of the periodic refresh
RefreshDue(cycles, refresh_after) ==
  refresh_after > 0 /\ cycles % refresh_after = 0

\* run 440-449: end of a pass over the panels
RunCycleEnd ==
  /\ run_pc = "cycle_end"
  /\ cycles_completed < MaxCycles
  /\ cycles_completed' = cycles_completed + 1
  /\ navigated' = <<>>
  /\ panel_idx' = 1
  /\ run_pc' = IF RefreshDue(cycles_completed', refresh_after_cycles)
               THEN "refresh" ELSE "nav"
  /\ UNCHANGED <<driver, session, quit_calls, created, refresh_after_cycles,
                 durations, nav_elapsed, slept, setup_from, unwinding,
                 exit_code>>
  /\ UNCHANGED runLog
  /\ UNCHANGED <<cfgVars, drvVars, navVars, authVars>>

\* refresh_browser 461-466: quit the old session, then setup_browser; an
\* exception of quit is logged and ends the refresh
RunRefresh ==
  /\ run_pc = "refresh"
  /\ IF driver # 0
     THEN \E raises \in BOOLEAN :
            /\ Quit(driver, raises)
            /\ run_pc' = IF raises THEN "nav" ELSE "setup_create"
            /\ refresh_log' = IF raises THEN "quit_raised" ELSE "none"
     ELSE /\ run_pc' = "setup_create"
          /\ refresh_log' = "none"
          /\ UNCHANGED <<session, quit_calls>>
  /\ setup_from' = "refresh"
  /\ UNCHANGED <<driver, created, panel_idx, cycles_completed,
                 refresh_after_cycles, durations, nav_elapsed, slept,
                 navigated, unwinding, exit_code>>
  /\ refresh_old' = driver
  /\ UNCHANGED prev_arg
  /\ UNCHANGED <<cfgVars, drvVars, navVars, authVars>>

\* positions of the main thread inside run's try block
InTry == {"setup_create", "setup_assign", "setup_config", "nav", "sleep",
          "cycle_end", "refresh"}

\* signal_handler (468-472), run between two bytecodes of the main thread:
\* cleanup(), then sys.exit(0) raises SystemExit at the interrupted position,
\* which no except clause (Exception, WebDriverException) catches
SignalHandler ==
  /\ run_pc \in InTry
  /\ Cleanup
  /\ unwinding' = "SystemExit"
  /\ run_pc' = "finally"
  /\ UNCHANGED <<driver, created, panel_idx, cycles_completed,
                 refresh_after_cycles, durations, nav_elapsed, slept,
                 navigated, setup_from, exit_code>>
  /\ UNCHANGED runLog
  /\ UNCHANGED <<cfgVars, drvVars, navVars, authVars>>

\* run 456-457: finally: self.cleanup(); then SystemExit(0) ends the process
\* with code 0, and any other exception reaches main (491-493): exit code 1
RunFinally ==
  /\ run_pc = "finally"
  /\ Cleanup
  /\ exit_code' = IF unwinding = "SystemExit" THEN 0 ELSE 1
  /\ run_pc' = "exited"
  /\ UNCHANGED <<driver, created, panel_idx, cycles_completed,
                 refresh_after_cycles, durations, nav_elapsed, slept,
                 navigated, setup_from, unwinding>>
  /\ UNCHANGED runLog
  /\ UNCHANGED <<cfgVars, drvVars, navVars, authVars>>

(***************************************************************************)
(* _prepare_panel_url called on its own (panel_navigator.py 123-141).  A   *)
(* URL is the concatenation of its tokens, so "?kiosk" occurs in the text  *)
(* exactly where "?" is followed by "kiosk" in the sequence.               *)
(***************************************************************************)
UrlTokens == {"d", "?", "&", "#", "kiosk"}
\* the address of a dashboard followed by up to MaxUrlTail further tokens
UrlInputs ==
  {UrlPlain \o tail :
     tail \in UNION {[1..n -> UrlTokens] : n \in 0..MaxUrlTail}}

\* navigate_to_panel 23: panel_url = self._prepare_panel_url(panel["url"])
PrepareUrl ==
  /\ prep_pc = "input"
  /\ prepared_url' = _prepare_panel_url(prep_url, grafana_kiosk_mode)
  /\ prep_pc' = "prepared"
  /\ UNCHANGED <<prep_url, prepared_again, grafana_kiosk_mode, loadVars, envVars, ovlVars>>
  /\ UNCHANGED <<drvVars, navVars, authVars, runVars>>

\* the returned URL is handed to _prepare_panel_url once more
PrepareAgain ==
  /\ prep_pc = "prepared"
  /\ prepared_again' = _prepare_panel_url(prepared_url, grafana_kiosk_mode)
  /\ prep_pc' = "again"
  /\ UNCHANGED <<prep_url, prepared_url, grafana_kiosk_mode, loadVars, envVars, ovlVars>>
  /\ UNCHANGED <<drvVars, navVars, authVars, runVars>>

(***************************************************************************)
(* ConfigManager (config.py).  Durations are in tenths of a second.  A     *)
(* panel of the document is a record: has_url / has_duration say whether   *)
(* the key is present, vars_kind whether "variables" is absent, a mapping  *)
(* ("dict") or something else, and variables lists the mapping's items in  *)
(* document order, each with is_list and its values.                       *)
(***************************************************************************)
Panel(name, has_url, url, has_duration, duration, vars_kind, variables) ==
  [name |-> name, has_url |-> has_url, url |-> url,
   has_duration |-> has_duration, duration |-> duration,
   vars_kind |-> vars_kind, variables |-> variables]
Var(name, is_list, values) ==
  [name |-> name, is_list |-> is_list, values |-> values]

\* panel["url"] texts; f"var-{name}={name}" is the tokens "var-", name, "=", name
CfgUrl    == <<"http://", "localhost", "/", "d">>
CfgUrlOne == CfgUrl \o <<"?", "var-", "p", "=", "p">>
CfgUrlTwo == CfgUrl \o <<"?", "var-", "p", "=", "p", "&", "var-", "r", "=", "r">>
VarP  == Var("p", TRUE, <<"a", "b">>)
VarP3 == Var("p", TRUE, <<"a", "b", "c">>)
VarR  == Var("r", TRUE, <<"x", "y", "z">>)
VarR2 == Var("r", TRUE, <<"x", "y">>)

\* the panels a configuration file of the model is made of
ConfigPanels ==
  { Panel(<<"Regular">>, TRUE, CfgUrl, TRUE, 100, "absent", <<>>),
    Panel(<<"Zero">>, TRUE, CfgUrl, TRUE, 0, "absent", <<>>),
    Panel(<<"NoUrl">>, FALSE, <<>>, TRUE, 100, "absent", <<>>),
    Panel(<<"NoDuration">>, TRUE, CfgUrl, FALSE, 0, "absent", <<>>),
    Panel(<<"NotDict">>, TRUE, CfgUrl, TRUE, 100, "not_dict", <<>>),
    Panel(<<"NotList">>, TRUE, CfgUrlOne, TRUE, 100, "dict",
          <<Var("p", FALSE, <<>>)>>),
    Panel(<<"Empty">>, TRUE, CfgUrlOne, TRUE, 100, "dict",
          <<Var("p", TRUE, <<>>)>>),
    Panel(<<"SecondEmpty">>, TRUE, CfgUrlTwo, TRUE, 100, "dict",
          <<VarP, Var("r", TRUE, <<>>)>>),
    Panel(<<"One">>, TRUE, CfgUrlOne, TRUE, 30, "dict", <<VarP>>),
    Panel(<<"Three">>, TRUE, CfgUrlOne, TRUE, 100, "dict", <<VarP3>>),
    Panel(<<"Two">>, TRUE, CfgUrlTwo, TRUE, 240, "dict", <<VarP, VarR>>),
    Panel(<<"Quarter">>, TRUE, CfgUrlTwo, TRUE, 30, "dict", <<VarP, VarR2>>),
    Panel(<<"Short">>, TRUE, CfgUrlTwo, TRUE, 2, "dict", <<VarP, VarR>>),
    Panel(<<"NoVars">>, TRUE, CfgUrl, TRUE, 10, "dict", <<>>),
    Panel(<<"Leftover">>, TRUE, CfgUrlTwo, TRUE, 100, "dict", <<VarP>>),
    Panel(<<"Template">>, TRUE, CfgUrlOne, TRUE, 100, "absent", <<>>) }

\* a document that could not be read
NoConfig == [has_panels |-> FALSE, has_browser_settings |-> FALSE,
             panels |-> <<>>]

\* the documents of the model: with or without each required key, and with
\* up to MaxConfigPanels panels
Configs ==
  {[has_panels |-> TRUE, has_browser_settings |-> b, panels |-> ps] :
     b \in BOOLEAN,
     ps \in UNION {[1..n -> ConfigPanels] : n \in 0..MaxConfigPanels}}
  \cup {[has_panels |-> FALSE, has_browser_settings |-> b, panels |-> <<>>] :
          b \in BOOLEAN}

\* create_default_config (118-160): the document it writes
DefaultUrl == <<"http://", "localhost", "/", "d", "?", "orgId", "&", "kiosk">>
DefaultConfig ==
  [has_panels |-> TRUE, has_browser_settings |-> TRUE,
   panels |->
     << Panel(<<"Dashboard 1">>, TRUE, DefaultUrl, TRUE, 100, "absent", <<>>),
        Panel(<<"Dashboard 2">>, TRUE, DefaultUrl, TRUE, 150, "absent", <<>>),
        Panel(<<"Parameterized Dashboard">>, TRUE,
              <<"http://", "localhost", "/", "d", "?", "orgId", "&",
                "var-", "param", "=", "param", "&",
                "var-", "region", "=", "region", "&", "kiosk">>,
              TRUE, 300, "dict",
              <<Var("param", TRUE, <<"cpu", "memory", "disk">>),
                Var("region", TRUE, <<"us-east", "us-west">>)>>) >>]

\* a ValueError of load_config: what it names
Err(kind, panel, var) == [kind |-> kind, panel |-> panel, var |-> var]
NoError == Err("none", -1, "")

\* validate_config 51-62: the items of panel["variables"] in order
RECURSIVE VariablesError(_, _)
VariablesError(i, variables) ==
  IF variables = <<>> THEN NoError
  ELSE IF ~Head(variables).is_list
       THEN Err("variable must be a list", i, Head(variables).name)
  ELSE IF Head(variables).values = <<>>
       THEN Err("variable cannot be empty", i, Head(variables).name)
  ELSE VariablesError(i, Tail(variables))

\* variant: the duration key is not required
PanelError_DurationOptional(i, panel) ==
  IF ~panel.has_url THEN Err("missing URL", i, "")
  ELSE IF panel.vars_kind = "absent" THEN NoError
  ELSE IF panel.vars_kind # "dict"
       THEN Err("variables must be a dictionary", i, "")
  ELSE VariablesError(i, panel.variables)

\* validate_config 45-62: the checks on panel number i
PanelError(i, panel) ==
  IF ~panel.has_url THEN Err("missing URL", i, "")
  ELSE IF ~panel.has_duration THEN Err("missing duration", i, "")
  ELSE IF panel.vars_kind = "absent" THEN NoError
  ELSE IF panel.vars_kind # "dict"
       THEN Err("variables must be a dictionary", i, "")
  ELSE VariablesError(i, panel.variables)

\* validate_config (34-62): NoError, or the ValueError it raises
validate_config(cfg) ==
  IF ~cfg.has_panels THEN Err("Missing required config key", -1, "panels")
  ELSE IF ~cfg.has_browser_settings
       THEN Err("Missing required config key", -1, "browser_settings")
  ELSE IF cfg.panels = <<>> THEN Err("No panels configured", -1, "")
  ELSE LET bad == {i \in 1..Len(cfg.panels) :
                     PanelError(i - 1, cfg.panels[i]) # NoError}
       IN  IF bad = {} THEN NoError
           ELSE LET i == CHOOSE i \in bad : \A j \in bad : i <= j
                IN  PanelError(i - 1, cfg.panels[i])

\* python: s.replace(old, new)
RECURSIVE Replace(_, _, _)
Replace(s, old, new) ==
  IF Len(s) < Len(old) THEN s
  ELSE IF SubSeq(s, 1, Len(old)) = old
       THEN new \o Replace(SubSeq(s, Len(old) + 1, Len(s)), old, new)
       ELSE <<Head(s)>> \o Replace(Tail(s), old, new)

\* python: list(itertools.product(*var_values))
RECURSIVE Product(_)
Product(var_values) ==
  IF var_values = <<>> THEN << <<>> >>
  ELSE LET first == Head(var_values)
           rest == Product(Tail(var_values))
       IN  [k \in 1..(Len(first) * Len(rest)) |->
              <<first[((k - 1) \div Len(rest)) + 1]>>
                \o rest[((k - 1) % Len(rest)) + 1]]

\* variant: the share of the duration is cut off after the first decimal
RoundTenths_Truncates(total_duration, n) == total_duration \div n

\* python: round(total_duration / n, 1), in tenths; a tie goes to the even
\* tenth (the ties of the model, quarters of a second, are exact in binary)
RoundTenths(total_duration, n) ==
  LET q == total_duration \div n
      r == total_duration % n
  IN  IF 2 * r < n THEN q
      ELSE IF 2 * r > n THEN q + 1
      ELSE IF q % 2 = 0 THEN q ELSE q + 1

\* expand_panels 94-99: one replace per item of var_map, in order
RECURSIVE ExpandUrl(_, _, _)
ExpandUrl(url, var_names, combination) ==
  IF var_names = <<>> THEN url
  ELSE ExpandUrl(Replace(url,
                         <<"var-", Head(var_names), "=", Head(var_names)>>,
                         <<"var-", Head(var_names), "=", Head(combination)>>),
                 Tail(var_names), Tail(combination))

\* expand_panels 103: ', '.join(f'{k}={v}' for k, v in var_map.items())
RECURSIVE JoinItems(_, _)
JoinItems(var_names, combination) ==
  IF var_names = <<>> THEN <<>>
  ELSE <<Head(var_names), "=", Head(combination)>>
         \o (IF Len(var_names) > 1 THEN <<", ">> ELSE <<>>)
         \o JoinItems(Tail(var_names), Tail(combination))

\* expand_panels 69-112: the panels one templated panel is replaced by
ExpandPanel(panel) ==
  LET var_names == [j \in 1..Len(panel.variables) |-> panel.variables[j].name]
      var_values == [j \in 1..Len(panel.variables) |-> panel.variables[j].values]
      combinations == Product(var_values)
  IN  [k \in 1..Len(combinations) |->
         [name |-> panel.name \o <<" (">>
                     \o JoinItems(var_names, combinations[k]) \o <<")">>,
          url |-> ExpandUrl(panel.url, var_names, combinations[k]),
          duration |-> RoundTenths(panel.duration, Len(combinations)),
          original_panel |-> panel.name,
          variables |-> [j \in 1..Len(var_names) |->
                           <<var_names[j], combinations[k][j]>>]]]

\* expand_panels (64-116)
RECURSIVE expand_panels(_)
expand_panels(panels) ==
  IF panels = <<>> THEN <<>>
  ELSE (IF Head(panels).vars_kind # "absent"
        THEN ExpandPanel(Head(panels))
        ELSE <<Head(panels)>>)
       \o expand_panels(Tail(panels))

\* variant: a file that is not JSON is replaced by the default document too
CreatesDefault_AlsoMalformed(file) == file \in {"missing", "malformed"}

\* load_config 20 and 28-30: open raises FileNotFoundError, the only exception
\* that leads to create_default_config
CreatesDefault(file) == file = "missing"

\* load_config 19-21 and 28-32: open and json.load; a missing file is created
\* with the default document and load_config is called again
ReadConfig ==
  /\ cfg_pc = "start"
  /\ IF CreatesDefault(cfg_file)
     THEN /\ cfg_file' = "present"
          /\ config' = DefaultConfig
          /\ cfg_creates' = cfg_creates + 1
          /\ UNCHANGED <<cfg_pc, cfg_error>>
     ELSE IF cfg_file = "malformed"
     THEN /\ cfg_pc' = "raised"
          /\ cfg_error' = Err("Invalid JSON in config file", -1, "")
          /\ UNCHANGED <<cfg_file, config, cfg_creates>>
     ELSE /\ cfg_pc' = "parsed"
          /\ UNCHANGED <<cfg_file, config, cfg_error, cfg_creates>>
  /\ UNCHANGED <<cfg_panels, cfg_found, grafana_kiosk_mode, prepVars, envVars, ovlVars>>
  /\ UNCHANGED <<drvVars, navVars, authVars, runVars>>

\* load_config 22: self.validate_config(config); its ValueError is not
\* caught by the except clauses of load_config
ValidateConfig ==
  /\ cfg_pc = "parsed"
  /\ IF validate_config(config) = NoError
     THEN /\ cfg_pc' = "validated"
          /\ UNCHANGED cfg_error
     ELSE /\ cfg_pc' = "raised"
          /\ cfg_error' = validate_config(config)
  /\ UNCHANGED <<cfg_file, config, cfg_panels, cfg_creates, cfg_found,
                 grafana_kiosk_mode, prepVars, envVars, ovlVars>>
  /\ UNCHANGED <<drvVars, navVars, authVars, runVars>>

\* load_config 25-27: config["panels"] = self.expand_panels(config["panels"])
ExpandPanels ==
  /\ cfg_pc = "validated"
  /\ cfg_panels' = expand_panels(config.panels)
  /\ cfg_pc' = "returned"
  /\ UNCHANGED <<cfg_file, config, cfg_error, cfg_creates, cfg_found,
                 grafana_kiosk_mode, prepVars, envVars, ovlVars>>
  /\ UNCHANGED <<drvVars, navVars, authVars, runVars>>

(***************************************************************************)
(* Specifications                                                          *)
(***************************************************************************)
\* no load_config call
ConfigIdle ==
  /\ cfg_pc = "idle"
  /\ cfg_file = "present"
  /\ config = NoConfig
  /\ cfg_error = NoError
  /\ cfg_panels = <<>>
  /\ cfg_creates = 0
  /\ cfg_found = "present"

\* an AuthHandler constructed in an environment without credentials
AuthConstructed ==
  /\ environ = NoEnvironment
  /\ constructed = TRUE

\* no call of _prepare_panel_url on its own
PrepareIdle ==
  /\ prep_pc = "idle"
  /\ prep_url = NoUrl
  /\ prepared_url = NoUrl
  /\ prepared_again = NoUrl

\* no navigate_to_panel call of PanelNavigator in progress
NavIdle ==
  /\ nav_pc = "idle"
  /\ nav_panel = NoPanel
  /\ nav_auth = FALSE
  /\ previous_panel = NoPanel
  /\ panel_url = Unbound
  /\ skip_overlay = FALSE
  /\ nav_exc = "none"
  /\ nav_result = "none"
  /\ trace = <<>>
  /\ get_url = Unbound
  /\ auth_pc = "idle"
  /\ check_result = "none"
  /\ handle_result = "none"
  /\ wait_end = "none"
  /\ elapsed = 0
  /\ overlay_visible = FALSE
  /\ overlay_prev = NoLabel

\* GrafanaRunner after __init__ (23-33): no browser session yet
RunnerConstructed ==
  /\ run_pc = "init"
  /\ driver = 0
  /\ session = [s \in Sessions |-> "none"]
  /\ quit_calls = [s \in Sessions |-> 0]
  /\ created = 0
  /\ panel_idx = 1
  /\ cycles_completed = 0
  /\ nav_elapsed = 0
  /\ slept = 0
  /\ navigated = <<>>
  /\ setup_from = "run"
  /\ unwinding = "none"
  /\ exit_code = -1
  /\ refresh_log = "none"
  /\ refresh_old = 0
  /\ prev_arg = 0

\* the navigator and the authentication handler, called on a browser session
\* that is at any page
InitNav ==
  /\ grafana_kiosk_mode \in BOOLEAN
  /\ environ \in Environments
  /\ constructed = FALSE
  /\ overlay_setting = NoSetting
  /\ auth_enabled = FALSE
  /\ current_url \in Pages
  /\ otp_field \in BOOLEAN
  /\ PrepareIdle
  /\ ConfigIdle
  /\ NavIdle
  /\ RunnerConstructed
  /\ refresh_after_cycles = 10
  /\ durations = [i \in PanelIdx |-> 2]

NextNav ==
  \/ LoadCredentials
  \/ NavCall \/ NavPrepare \/ NavDecide \/ NavShow \/ NavHold \/ NavGet
  \/ NavWait \/ NavAuthCall \/ NavAuthReturn \/ NavSettle \/ NavExcept
  \/ NavDone
  \/ AuthCheck \/ AuthSso \/ AuthFill \/ AuthTotpCheck \/ AuthTotp
  \/ AuthWaitPoll \/ AuthFinish \/ AuthReturn

SpecNav == InitNav /\ [][NextNav]_vars

\* navigate_to_panel with a default configuration of the kiosk marker, every
\* setting of the minimum overlay duration and every previous_panel argument;
\* the handler was constructed with all credentials or with none
InitOverlay ==
  /\ grafana_kiosk_mode = TRUE
  /\ environ \in {NoEnvironment, [n \in CredentialNames |-> "value"]}
  /\ constructed = TRUE
  /\ auth_enabled = AllPresent(environ["CERN_USERNAME"],
                               environ["CERN_PASSWORD"],
                               environ["CERN_TOTP_SECRET"])
  /\ overlay_setting \in OverlaySettings
  /\ current_url \in Pages
  /\ otp_field \in BOOLEAN
  /\ PrepareIdle
  /\ ConfigIdle
  /\ NavIdle
  /\ RunnerConstructed
  /\ refresh_after_cycles = 10
  /\ durations = [i \in PanelIdx |-> 2]

NextOverlay ==
  \/ NavCallAfter \/ NavPrepare \/ NavDecide \/ NavShow \/ NavHold \/ NavGet
  \/ NavWait \/ NavAuthCall \/ NavAuthReturn \/ NavSettle \/ NavExcept
  \/ NavDone
  \/ AuthCheck \/ AuthSso \/ AuthFill \/ AuthTotpCheck \/ AuthTotp
  \/ AuthWaitPoll \/ AuthFinish \/ AuthReturn

SpecOverlay == InitOverlay /\ [][NextOverlay]_vars

\* check_and_handle_authentication called on its own, by a caller that is
\* not navigate_to_panel, with a handler that has its credentials
AuthCall ==
  /\ nav_pc = "idle"
  /\ auth_pc = "idle"
  /\ auth_pc' = "check"
  /\ trace' = <<>>
  /\ check_result' = "none"
  /\ handle_result' = "none"
  /\ wait_end' = "none"
  /\ elapsed' = 0
  /\ UNCHANGED <<nav_pc, nav_panel, nav_auth, previous_panel, panel_url,
                 skip_overlay, nav_exc, nav_result>>
  /\ UNCHANGED <<auth_enabled, cfgVars, drvVars, runVars>>

\* the caller has the result
AuthDone ==
  /\ nav_pc = "idle"
  /\ auth_pc = "done"
  /\ auth_pc' = "idle"
  /\ UNCHANGED <<check_result, handle_result, wait_end, elapsed, auth_enabled,
                 trace>>
  /\ UNCHANGED <<nav_pc, nav_panel, nav_auth, previous_panel, panel_url,
                 skip_overlay, nav_exc, nav_result>>
  /\ UNCHANGED <<cfgVars, drvVars, runVars>>

InitAuth ==
  /\ grafana_kiosk_mode = TRUE
  /\ environ = [n \in CredentialNames |-> "value"]
  /\ constructed = TRUE
  /\ auth_enabled = AllPresent(environ["CERN_USERNAME"],
                               environ["CERN_PASSWORD"],
                               environ["CERN_TOTP_SECRET"])
  /\ overlay_setting = NoSetting
  /\ current_url \in Pages
  /\ otp_field \in BOOLEAN
  /\ PrepareIdle
  /\ ConfigIdle
  /\ NavIdle
  /\ RunnerConstructed
  /\ refresh_after_cycles = 10
  /\ durations = [i \in PanelIdx |-> 2]

NextAuth ==
  \/ AuthCall \/ AuthCheck \/ AuthSsoAny \/ AuthFill \/ AuthTotpCheck
  \/ AuthTotp \/ AuthWaitPoll \/ AuthFinish \/ AuthReturn \/ AuthDone

SpecAuth == InitAuth /\ [][NextAuth]_vars

\* _wait_for_successful_authentication is a loop of one thread: once entered,
\* its next iteration is eventually executed
SpecAuthFair == SpecAuth /\ WF_vars(AuthWaitPoll)

\* the rotation loop, for every configuration of the refresh interval and of
\* the panel durations
InitRun ==
  /\ grafana_kiosk_mode = TRUE
  /\ auth_enabled = FALSE
  /\ AuthConstructed
  /\ overlay_setting = NoSetting
  /\ current_url = PanelPage
  /\ otp_field = FALSE
  /\ PrepareIdle
  /\ ConfigIdle
  /\ NavIdle
  /\ RunnerConstructed
  /\ refresh_after_cycles \in {0, 1, 2}
  /\ durations \in [PanelIdx -> Durations]

\* the steps of the main thread
RunStep ==
  \/ RunStart \/ SetupCreate \/ SetupAssign \/ SetupConfig \/ RunNavigate
  \/ RunSleep \/ RunCycleEnd \/ RunRefresh \/ RunFinally

NextRun == RunStep \/ SignalHandler

SpecRun == InitRun /\ [][NextRun]_vars

\* the main thread keeps running: a blocking call returns or raises
SpecRunFair == SpecRun /\ WF_vars(RunStep)

\* _prepare_panel_url on every URL of UrlInputs, with either kiosk setting
InitUrl ==
  /\ grafana_kiosk_mode \in BOOLEAN
  /\ prep_pc = "input"
  /\ prep_url \in UrlInputs
  /\ prepared_url = NoUrl
  /\ prepared_again = NoUrl
  /\ ConfigIdle
  /\ auth_enabled = FALSE
  /\ AuthConstructed
  /\ overlay_setting = NoSetting
  /\ current_url = PanelPage
  /\ otp_field = FALSE
  /\ NavIdle
  /\ RunnerConstructed
  /\ refresh_after_cycles = 10
  /\ durations = [i \in PanelIdx |-> 2]

NextUrl == PrepareUrl \/ PrepareAgain

SpecUrl == InitUrl /\ [][NextUrl]_vars

\* load_config on a missing file, a file that is not JSON, and every
\* document of Configs
InitConfig ==
  /\ cfg_pc = "start"
  /\ \/ cfg_file \in {"missing", "malformed"} /\ config = NoConfig
     \/ cfg_file = "present" /\ config \in Configs
  /\ cfg_found = cfg_file
  /\ cfg_creates = 0
  /\ cfg_error = NoError
  /\ cfg_panels = <<>>
  /\ grafana_kiosk_mode = TRUE
  /\ PrepareIdle
  /\ auth_enabled = FALSE
  /\ AuthConstructed
  /\ overlay_setting = NoSetting
  /\ current_url = PanelPage
  /\ otp_field = FALSE
  /\ NavIdle
  /\ RunnerConstructed
  /\ refresh_after_cycles = 10
  /\ durations = [i \in PanelIdx |-> 2]

NextConfig == ReadConfig \/ ValidateConfig \/ ExpandPanels

SpecConfig == InitConfig /\ [][NextConfig]_vars

(***************************************************************************)
(* Properties of navigate_to_panel and of the authentication handler,      *)
(* checked under SpecNav                                                   *)
(***************************************************************************)
\* number of occurrences of event ev in the trace of the current call
Count(ev) == Cardinality({i \in 1..Len(trace) : trace[i] = ev})
Has(ev) == \E i \in 1..Len(trace) : trace[i] = ev
\* every ev1 comes before every ev2
Before(ev1, ev2) ==
  \A i, j \in 1..Len(trace) : trace[i] = ev1 /\ trace[j] = ev2 => i < j
\* a browser interaction of the login flow took place
Interacted ==
  \E ev \in {"click_sso", "type_username", "type_password", "submit_login",
             "generate_totp", "type_otp", "submit_otp"} : Has(ev)

\* C1: navigate_to_panel never propagates an exception: when any step of
\* the sequence raised, the call has logged the failure, invoked
\* hide_transition_overlay and returned false.
C1_NeverPropagates ==
  nav_pc = "returned" =>
    /\ nav_result # "raised"
    /\ nav_exc # "none" =>
         /\ nav_result = "false"
         /\ Has("hide_overlay")
         /\ Has("log_warning") \/ Has("log_error")

\* C2: handle_authentication returns true only if the redirect wait
\* succeeded; when the wait ended by timeout it returns false.
C2_TrueOnlyIfWaitSucceeded ==
  auth_pc \in {"return", "done"} =>
    /\ handle_result = "true" => wait_end = "success"
    /\ wait_end = "timeout" => handle_result = "false"

\* C3: with an authentication handler and a completed page-load wait,
\* check_and_handle_authentication is called exactly once, after driver.get
\* and the wait; its false makes navigate_to_panel return false, on the
\* overlay path and on the overlay-skipped path, and its true makes the call
\* return true.
C3_AuthCheckDecides ==
  /\ Count("check_auth") <= 1
  /\ Has("check_auth") => nav_auth /\ Has("loaded")
  /\ Before("get", "check_auth") /\ Before("wait", "check_auth")
  /\ (nav_pc = "returned" /\ nav_auth /\ Has("loaded")) =>
       /\ Count("check_auth") = 1
       /\ check_result = "false" => nav_result = "false"
       /\ check_result = "true" => nav_result = "true"
       /\ check_result \in {"true", "false", "raised"}

\* a call on the overlay path whose authentication check returned false
C3_Witness ==
  /\ nav_pc = "returned" /\ nav_auth /\ ~skip_overlay
  /\ Has("show_overlay") /\ Has("loaded")
  /\ check_result = "false" /\ nav_result = "false"

\* the overlay was shown and held when driver.get is about to be called
OverlayBeforeGet == Has("show_overlay") /\ Has("hold")
NoOverlayBeforeGet ==
  ~Has("show_overlay") /\ ~Has("overlay_script") /\ ~Has("hold")

\* C4 as claimed: at the driver.get call the overlay has been skipped if no
\* coordinator is supplied, or authentication is disabled, or the session is
\* on a login or second-factor page, and shown only otherwise.
C4_SkipAsClaimed ==
  nav_pc = "get" =>
    IF ~nav_auth \/ ~auth_enabled \/ is_login_page(current_url) \/ otp_field
    THEN NoOverlayBeforeGet
    ELSE OverlayBeforeGet

\* C4 amended: the overlay is skipped exactly when a coordinator is supplied
\* and its authentication is disabled or the session is on a login or
\* second-factor page; without a coordinator the overlay is shown.
C4_SkipOnlyWithCoordinator ==
  nav_pc = "get" =>
    IF nav_auth /\ (~auth_enabled \/ is_login_page(current_url) \/ otp_field)
    THEN NoOverlayBeforeGet /\ skip_overlay
    ELSE OverlayBeforeGet /\ ~skip_overlay

\* no coordinator supplied: the overlay was shown and held before driver.get
C4_Witness ==
  nav_pc = "get" /\ ~nav_auth /\ OverlayBeforeGet /\ Has("overlay_script")

\* C5: a page-load wait that times out is a navigation failure: the call
\* logs, calls hide_transition_overlay and returns false, with neither the
\* authentication check nor the settle delay.
C5_LoadTimeoutFails ==
  /\ Has("wait_timeout") => ~Has("check_auth") /\ ~Has("settle")
  /\ (nav_pc = "returned" /\ Has("wait_timeout")) =>
       /\ nav_result = "false"
       /\ Has("log_warning")
       /\ Count("hide_overlay") = 1
       /\ Before("wait_timeout", "hide_overlay")

\* a call that ended by the page-load timeout after driver.get
C5_Witness ==
  /\ nav_pc = "returned" /\ Has("get") /\ Has("wait_timeout")
  /\ nav_result = "false" /\ Has("hide_overlay")

\* C6: check_and_handle_authentication computes: disabled and not on a login
\* page -> true; disabled and on a login page -> false; enabled and not on a
\* login page -> true with no click, typing or submission; enabled and on a
\* login page -> the value of handle_authentication, invoked exactly once.
C6_CheckTable ==
  /\ Count("handle_authentication") <= 1
  /\ auth_pc = "sso" => auth_enabled /\ is_login_page(current_url)
  /\ (auth_pc = "done" /\ check_result # "raised") =>
       IF Has("handle_authentication")
       THEN auth_enabled /\ check_result = handle_result
       ELSE /\ ~Interacted
            /\ auth_enabled => ~is_login_page(current_url)
            /\ check_result =
                 IF ~auth_enabled /\ is_login_page(current_url)
                 THEN "false" ELSE "true"

\* the check delegated to handle_authentication, which returned
C6_Witness ==
  /\ auth_pc = "done" /\ auth_enabled
  /\ Count("handle_authentication") = 1
  /\ check_result = handle_result /\ handle_result \in {"true", "false"}

(***************************************************************************)
(* Properties of the rotation loop, checked under SpecRun / SpecRunFair    *)
(***************************************************************************)
\* the pass navigated panels 1..Len(navigated), each once and in list order
InListOrder == \A k \in 1..Len(navigated) : navigated[k][1] = k

\* the loop is about to navigate panel i and the model's cycle bound is not
\* reached
AtPanel(i) ==
  run_pc = "nav" /\ panel_idx = i /\ cycles_completed < MaxCycles

\* panel i has been navigated and the loop is at the panel after it
PastPanel(i) ==
  \/ run_pc = "nav" /\ panel_idx = i + 1 /\ Len(navigated) = i
  \/ i = NumPanels /\ run_pc = "nav" /\ panel_idx = 1 /\ navigated = <<>>

\* C7: run loops over the panel list: in every pass each panel is navigated
\* exactly once, in list order; a failed navigation does not stop the loop;
\* absent a shutdown signal the loop always reaches the next panel.
C7_RotationContinues ==
  /\ [](InListOrder /\ (run_pc = "cycle_end" => Len(navigated) = NumPanels))
  /\ \A i \in PanelIdx :
       [](AtPanel(i) => <>(PastPanel(i) \/ unwinding = "SystemExit"))

\* the first panel's navigation failed and the second was navigated after it
C7_Witness ==
  /\ Len(navigated) = 2
  /\ navigated[1] = <<1, "Exception">>
  /\ navigated[2][1] = 2
  /\ unwinding = "none"

Max(a, b) == IF a >= b THEN a ELSE b

\* C8: after navigating to a panel the loop sleeps
\* max(panel.duration - elapsedNavigationTime, 0.5) (0.5 s is 1 unit).
C8_DisplayTime ==
  (run_pc \in {"nav", "cycle_end"} /\ Len(navigated) > 0) =>
    slept = Max(durations[navigated[Len(navigated)][1]] - nav_elapsed, 1)

\* cycles is a positive multiple of the refresh interval
RefreshPass(cycles, interval) ==
  interval > 0 /\ \E k \in 1..cycles : k * interval = cycles

\* C9: the cycle counter increases by exactly one after each full pass, and
\* the session is destroyed and recreated exactly at the passes where the
\* counter is a positive multiple of refresh_browser_after_cycles, never in
\* the middle of a pass, and never when the interval is 0.
C9_RefreshAtMultiples ==
  [][ /\ cycles_completed' # cycles_completed =>
           /\ run_pc = "cycle_end" /\ Len(navigated) = NumPanels
           /\ cycles_completed' = cycles_completed + 1
      /\ (run_pc = "cycle_end" /\ run_pc' \in {"nav", "refresh"}) =>
           /\ cycles_completed' = cycles_completed + 1
           /\ run_pc' = "refresh"
                <=> RefreshPass(cycles_completed', refresh_after_cycles)
      /\ (run_pc # "refresh" /\ run_pc' = "refresh") => run_pc = "cycle_end"
      /\ (setup_from' = "refresh" /\ setup_from = "run") => run_pc = "refresh"
      /\ (session' # session /\ unwinding' = "none") =>
           \/ run_pc = "refresh"
           \/ run_pc = "setup_create" /\ setup_from = "refresh"
           \/ run_pc = "setup_create" /\ cycles_completed = 0 /\ driver = 0
      /\ refresh_after_cycles = 0 => run_pc' # "refresh"
    ]_vars

\* a refresh at the second pass replaced the first session by a new one
C9_Witness ==
  /\ refresh_after_cycles = 2 /\ cycles_completed = 2
  /\ session[1] = "quit" /\ driver = 2 /\ session[2] = "live"
  /\ run_pc = "nav"

\* C10: when a termination signal arrives at any point of run, every browser
\* session created and not yet destroyed is quit before the process exits,
\* and the exit code is 0.
C10_SignalQuitsEverySession ==
  (run_pc = "exited" /\ unwinding = "SystemExit") =>
    /\ exit_code = 0
    /\ \A s \in Sessions : session[s] # "none" => quit_calls[s] >= 1

(***************************************************************************)
(* Browser sessions over startup, rotation, refresh and shutdown, checked  *)
(* under SpecRun                                                           *)
(***************************************************************************)
LiveSessions == {s \in Sessions : session[s] = "live"}

\* C11: at every point of startup, rotation, periodic refresh and shutdown at
\* most one browser session is live; sessions are created only by
\* setup_browser called from run or from refresh_browser, and when
\* refresh_browser creates the new session the old one is no longer live.
C11_AtMostOneLiveSession ==
  [][/\ Cardinality(LiveSessions') <= 1
     /\ LiveSessions' \ LiveSessions # {}
          => /\ run_pc = "setup_create"
             /\ LiveSessions = {}
             /\ setup_from = "refresh" => /\ driver # 0
                                          /\ session[driver] = "quit"
                                          /\ quit_calls[driver] >= 1]_vars

\* a periodic refresh has just created the replacement session
C11_Witness ==
  /\ run_pc = "setup_assign"
  /\ setup_from = "refresh"
  /\ session[driver] = "quit"
  /\ created # 0
  /\ created # driver
  /\ session[created] = "live"

RefreshFailures == {"quit_raised", "create_raised", "config_raised"}

\* C12 as stated: whenever a periodic refresh fails (driver.quit() or
\* setup_browser() raises), the error is logged and not propagated and the
\* loop goes on with the session it had before the refresh.
C12_FailedRefreshKeepsOldSession ==
  (refresh_log \in RefreshFailures /\ run_pc \in {"nav", "sleep", "cycle_end"})
    => /\ unwinding = "none"
       /\ driver = refresh_old

\* C12: a step of refresh_browser that raises is logged and not propagated,
\* and the loop goes on with the first panel of the next pass; self.driver is
\* still the session from before the refresh when quitting it or starting
\* the new browser raised, and is the new session when configuring the new
\* session raised.
C12_FailedRefreshContinues ==
  [][(/\ run_pc \in {"refresh", "setup_create", "setup_config"}
      /\ refresh_log' \in RefreshFailures
      /\ unwinding' # "SystemExit")
       => /\ run_pc' = "nav"
          /\ panel_idx' = 1
          /\ unwinding' = "none"
          /\ cycles_completed' = cycles_completed
          /\ refresh_log' \in {"quit_raised", "create_raised"}
               => driver' = refresh_old'
          /\ refresh_log' = "config_raised"
               => /\ driver' # refresh_old'
                  /\ session'[driver'] = "live"
                  /\ session'[refresh_old'] = "quit"]_vars

\* after a refresh whose setup_browser raised, the loop has navigated again
C12_Witness ==
  /\ refresh_log \in {"create_raised", "config_raised"}
  /\ run_pc = "sleep"
  /\ navigated # <<>>
  /\ unwinding = "none"

\* the panel a navigation is expected to receive as previous panel: the one
\* navigated just before it in the same session, none for the first
\* navigation after startup or after a periodic refresh
ExpectedPrevious ==
  IF Len(navigated) > 1 THEN navigated[Len(navigated) - 1][1]
  ELSE IF cycles_completed = 0
          \/ RefreshDue(cycles_completed, refresh_after_cycles)
       THEN 0
       ELSE NumPanels

\* C13: each navigation of the rotation loop receives as previous panel the
\* panel navigated immediately before it in the same browser session, and
\* none for the first navigation after startup or after a periodic refresh.
C13_PreviousPanelPassed ==
  (run_pc = "sleep" /\ navigated # <<>>) => prev_arg = ExpectedPrevious

(***************************************************************************)
(* Exceptions inside handle_authentication, checked under SpecNav          *)
(***************************************************************************)
\* handle_authentication was called and has returned
HandleReturned ==
  Has("handle_authentication") /\ auth_pc \in {"return", "done", "idle"}

C15_OnlyRedirectTimeoutFails ==
  HandleReturned
    => /\ wait_end # "none"
       /\ handle_result = "false" <=> wait_end = "timeout"

(***************************************************************************)
(* Properties of _prepare_panel_url, checked under SpecUrl                 *)
(***************************************************************************)
\* the part of url before its first "#"
BeforeFragment(url) ==
  IF FirstHash(url) = 0 THEN url ELSE SubSeq(url, 1, FirstHash(url) - 1)

\* url from its first "#" on, empty if it has none
FromFragment(url) ==
  IF FirstHash(url) = 0 THEN <<>> ELSE SubSeq(url, FirstHash(url), Len(url))

HasQuery(base) == \E i \in 1..Len(base) : base[i] = "?"

\* base has a query string one of whose "&"-separated parameters is kiosk
CarriesMarker(base) ==
  \E i \in 2..Len(base) :
     /\ base[i] = "kiosk"
     /\ base[i - 1] \in {"?", "&"}
     /\ \E q \in 1..(i - 1) : base[q] = "?"
     /\ i = Len(base) \/ base[i + 1] = "&"

\* the URL the kiosk rule describes for url
WithKioskMarker(url) ==
  IF CarriesMarker(BeforeFragment(url))
  THEN url
  ELSE BeforeFragment(url)
         \o <<IF HasQuery(BeforeFragment(url)) THEN "&" ELSE "?", "kiosk">>
         \o FromFragment(url)

\* C16: with kiosk mode enabled _prepare_panel_url returns the URL unchanged
\* when its part before the first "#" already carries the kiosk parameter,
\* and otherwise with "?kiosk" (no query string) or "&kiosk" (query string)
\* inserted at the end of that part, so that the result always carries the
\* parameter before the fragment; with kiosk mode disabled it returns the
\* URL unchanged.
C16_KioskMarkerInserted ==
  prep_pc \in {"prepared", "again"}
    => /\ prepared_url = IF grafana_kiosk_mode
                         THEN WithKioskMarker(prep_url) ELSE prep_url
       /\ grafana_kiosk_mode => CarriesMarker(BeforeFragment(prepared_url))

\* C17: _prepare_panel_url is idempotent for either kiosk setting, and a URL
\* that already carries the kiosk parameter before its fragment is returned
\* unchanged.
C17_PrepareIdempotent ==
  /\ prep_pc = "again" => prepared_again = prepared_url
  /\ (prep_pc \in {"prepared", "again"}
        /\ CarriesMarker(BeforeFragment(prep_url)))
       => prepared_url = prep_url

\* a URL with a query string and a fragment got the marker and was prepared
\* once more
C17_Witness ==
  /\ prep_pc = "again"
  /\ grafana_kiosk_mode
  /\ prepared_url # prep_url
  /\ HasQuery(BeforeFragment(prep_url))
  /\ FirstHash(prep_url) # 0
  /\ prepared_again = prepared_url

(***************************************************************************)
(* Properties of ConfigManager, checked under SpecConfig                   *)
(***************************************************************************)
IsTemplate(panel) == panel.vars_kind # "absent"

\* n1 * ... * nk for the variable lists of a panel
RECURSIVE Combinations(_)
Combinations(variables) ==
  IF variables = <<>> THEN 1
  ELSE Len(Head(variables).values) * Combinations(Tail(variables))

\* number of panels the first i panels of the document stand for
RECURSIVE OutputCount(_, _)
OutputCount(panels, i) ==
  IF i = 0 THEN 0
  ELSE OutputCount(panels, i - 1)
         + (IF IsTemplate(panels[i])
            THEN Combinations(panels[i].variables) ELSE 1)

Abs(x) == IF x < 0 THEN -x ELSE x

\* r tenths is total / n rounded to one decimal
IsRounded(r, total, n) ==
  /\ 2 * Abs(n * r - total) <= n
  /\ 2 * Abs(n * r - total) = n => r % 2 = 0

IndexIn(values, v) == CHOOSE j \in 1..Len(values) : values[j] = v

\* combination a comes before combination b when the first variable varies
\* slowest
ComesBefore(a, b, variables) ==
  \E j \in 1..Len(variables) :
     /\ \A l \in 1..(j - 1) : a[l] = b[l]
     /\ IndexIn(variables[j].values, a[j][2])
          < IndexIn(variables[j].values, b[j][2])

\* url with the name after every "var-<name>=" of a chosen variable replaced
\* by the chosen value
Substituted(url, var_map) ==
  [t \in 1..Len(url) |->
     IF /\ t >= 4
        /\ url[t - 3] = "var-" /\ url[t - 2] = url[t] /\ url[t - 1] = "="
        /\ \E j \in 1..Len(var_map) : var_map[j][1] = url[t]
     THEN var_map[CHOOSE j \in 1..Len(var_map) : var_map[j][1] = url[t]][2]
     ELSE url[t]]

\* out[off + 1 .. off + n] are the n expansions of the templated panel
ExpandedAsDescribed(panel, out, off) ==
  LET n == Combinations(panel.variables)
      vs == panel.variables
  IN  /\ \A k \in 1..n :
           LET e == out[off + k] IN
             /\ "original_panel" \in DOMAIN e
             /\ IsRounded(e.duration, panel.duration, n)
             /\ Len(e.variables) = Len(vs)
             /\ \A j \in 1..Len(vs) :
                  /\ e.variables[j][1] = vs[j].name
                  /\ \E m \in 1..Len(vs[j].values) :
                       e.variables[j][2] = vs[j].values[m]
                  /\ Contains(e.name, <<vs[j].name, "=", e.variables[j][2]>>)
             /\ Contains(e.name, panel.name)
             /\ e.url = Substituted(panel.url, e.variables)
      /\ \A k1, k2 \in 1..n :
           k1 < k2 => ComesBefore(out[off + k1].variables,
                                  out[off + k2].variables, vs)

\* C18: in the list load_config returns, each templated panel of the
\* document is replaced, at its place, by n1*...*nk panels in cartesian
\* order with the first variable varying slowest, each with the original
\* duration divided by n1*...*nk and rounded to one decimal, a name that
\* embeds every key=value pair of its combination and the URL with each
\* placeholder var-<name>=<name> replaced by var-<name>=<value>; a panel
\* without the variables key is kept unchanged and the order of the panels
\* is preserved.
C18_ExpansionAsDescribed ==
  cfg_pc = "returned"
    => /\ Len(cfg_panels) = OutputCount(config.panels, Len(config.panels))
       /\ \A i \in 1..Len(config.panels) :
            LET panel == config.panels[i]
                off == OutputCount(config.panels, i - 1)
            IN  IF IsTemplate(panel)
                THEN ExpandedAsDescribed(panel, cfg_panels, off)
                ELSE /\ DOMAIN cfg_panels[off + 1] = DOMAIN panel
                     /\ cfg_panels[off + 1] = panel

\* a plain panel followed by a panel with two variable lists, of 2 and 3
\* values, was loaded
C18_Witness ==
  /\ cfg_pc = "returned"
  /\ Len(config.panels) = 2
  /\ ~IsTemplate(config.panels[1])
  /\ Len(config.panels[2].variables) = 2
  /\ Combinations(config.panels[2].variables) = 6
  /\ Len(cfg_panels) = 7

\* the text var-<name>=<name> occurs in url
HasPlaceholder(url) ==
  \E t \in 4..Len(url) :
     url[t - 3] = "var-" /\ url[t - 2] = url[t] /\ url[t - 1] = "="

\* C19: every panel of the list load_config returns has a positive duration
\* and a URL without a variable placeholder.
C19_ReturnedPanelsUsable ==
  cfg_pc = "returned"
    => \A i \in 1..Len(cfg_panels) :
         /\ cfg_panels[i].duration > 0
         /\ ~HasPlaceholder(cfg_panels[i].url)

\* the conditions under which a document is acceptable
Accepted(cfg) ==
  /\ cfg.has_panels
  /\ cfg.has_browser_settings
  /\ cfg.panels # <<>>
  /\ \A i \in 1..Len(cfg.panels) :
       /\ cfg.panels[i].has_url
       /\ cfg.panels[i].has_duration
       /\ IsTemplate(cfg.panels[i])
            => /\ cfg.panels[i].vars_kind = "dict"
               /\ \A j \in 1..Len(cfg.panels[i].variables) :
                    /\ cfg.panels[i].variables[j].is_list
                    /\ cfg.panels[i].variables[j].values # <<>>

\* every violation of a document, as <<panel, check, variable, error>>; the
\* panel is 0 for the checks on the document itself
Violations(cfg) ==
  {<<0, 1, 0, Err("Missing required config key", -1, "panels")>> :
     x \in IF cfg.has_panels THEN {} ELSE {1}}
  \cup {<<0, 2, 0, Err("Missing required config key", -1, "browser_settings")>> :
          x \in IF cfg.has_browser_settings THEN {} ELSE {1}}
  \cup {<<0, 3, 0, Err("No panels configured", -1, "")>> :
          x \in IF cfg.has_panels /\ cfg.panels = <<>> THEN {1} ELSE {}}
  \cup {<<i, 1, 0, Err("missing URL", i - 1, "")>> :
          i \in {i \in 1..Len(cfg.panels) : ~cfg.panels[i].has_url}}
  \cup {<<i, 2, 0, Err("missing duration", i - 1, "")>> :
          i \in {i \in 1..Len(cfg.panels) : ~cfg.panels[i].has_duration}}
  \cup {<<i, 3, 0, Err("variables must be a dictionary", i - 1, "")>> :
          i \in {i \in 1..Len(cfg.panels) :
                   cfg.panels[i].vars_kind = "not_dict"}}
  \cup UNION {
         {<<i, 4, j, Err("variable must be a list", i - 1,
                         cfg.panels[i].variables[j].name)>> :
            j \in {j \in 1..Len(cfg.panels[i].variables) :
                     ~cfg.panels[i].variables[j].is_list}}
         \cup
         {<<i, 4, j, Err("variable cannot be empty", i - 1,
                         cfg.panels[i].variables[j].name)>> :
            j \in {j \in 1..Len(cfg.panels[i].variables) :
                     /\ cfg.panels[i].variables[j].is_list
                     /\ cfg.panels[i].variables[j].values = <<>>}}
         : i \in {i \in 1..Len(cfg.panels) : cfg.panels[i].vars_kind = "dict"}}

\* v is not after w in the order of the document
NotAfter(v, w) ==
  \/ v[1] < w[1]
  \/ v[1] = w[1] /\ v[2] < w[2]
  \/ v[1] = w[1] /\ v[2] = w[2] /\ v[3] <= w[3]

FirstViolation(cfg) ==
  (CHOOSE v \in Violations(cfg) : \A w \in Violations(cfg) : NotAfter(v, w))[4]

\* C20: validate_config accepts a document exactly when it has the keys
\* panels and browser_settings, panels is not empty, every panel has url and
\* duration, and every variables entry is a mapping whose values are all
\* non-empty lists; otherwise load_config ends with the ValueError of the
\* first violation and neither returns nor expands a panel.
C20_ValidationAsDescribed ==
  /\ cfg_pc \in {"validated", "returned"}
       => Accepted(config) /\ cfg_error = NoError
  /\ (cfg_pc = "raised" /\ cfg_file # "malformed")
       => /\ ~Accepted(config)
          /\ cfg_error = FirstViolation(config)
          /\ cfg_panels = <<>>

\* the first panel is valid and the second has an empty list for its second
\* variable: the error names panel 1 and that variable
C20_Witness ==
  /\ cfg_pc = "raised"
  /\ Len(config.panels) = 2
  /\ PanelError(0, config.panels[1]) = NoError
  /\ cfg_error = Err("variable cannot be empty", 1, "r")

\* C21: load_config on a missing file calls create_default_config once and
\* never ends with an error, returning a non-empty panel list; a file that
\* exists is never written, and when it is not JSON or fails validation
\* load_config ends with a ValueError.
C21_DefaultCreatedOnce ==
  [][/\ cfg_creates' <= 1
     /\ cfg_creates' # cfg_creates => cfg_file = "missing"
     /\ cfg_found' = "missing"
          => /\ cfg_pc' # "raised"
             /\ cfg_pc' # "start" => cfg_creates' = 1
             /\ cfg_pc' = "returned" => cfg_panels' # <<>>
     /\ cfg_found' # "missing"
          => /\ cfg_creates' = 0
             /\ cfg_file' = cfg_found'
             /\ config' = config
             /\ (cfg_found' = "malformed" \/ validate_config(config') # NoError)
                  => /\ cfg_pc' \in {"start", "parsed", "raised"}
                     /\ cfg_pc' = "raised" => cfg_error' # NoError]_vars

\* the default file was created and the second attempt returned its panels
C21_Witness ==
  /\ cfg_found = "missing"
  /\ cfg_file = "present"
  /\ cfg_creates = 1
  /\ cfg_pc = "returned"
  /\ Len(cfg_panels) > 0

\* C22: once the AuthHandler is constructed, auth_enabled is true exactly
\* when the user name, the password and the one-time secret are all set and
\* non-empty in the environment; construction completes with every subset of
\* them missing, and auth_enabled keeps its value afterwards.
AllCredentialsSet == \A n \in CredentialNames : environ[n] \notin {NotSet, ""}

LabelAsDescribed ==
  IF previous_panel = NoPanel THEN overlay_prev = "Starting"
  ELSE previous_panel.name # NoName => overlay_prev = previous_panel.name

\* C23: a navigate_to_panel call without an authentication handler shows the
\* transition overlay on the current page before it navigates, labelled
\* 'Starting' for previous_panel None and with the previous panel's name
\* otherwise, and returns true once the page load has completed.
C23_OverlayShownWithoutHandler ==
  ~nav_auth =>
    /\ Has("get") => Has("show_overlay") /\ Before("show_overlay", "get")
    /\ Has("overlay_script") /\ ~Has("get")
         => overlay_visible /\ LabelAsDescribed
    /\ Has("loaded") => nav_pc \in {"settle", "returned", "idle"}
    /\ Has("loaded") /\ nav_pc \in {"returned", "idle"} => nav_result = "true"

\* the overlay names previous panel B while the call without a handler holds
\* it on the current page
C23_Witness ==
  /\ ~nav_auth
  /\ nav_pc = "get"
  /\ previous_panel # NoPanel
  /\ overlay_visible
  /\ overlay_prev = "B"
  /\ Has("hold")

\* a call without a handler and without a previous panel has returned true
C23_WitnessStarting ==
  /\ ~nav_auth
  /\ previous_panel = NoPanel
  /\ Has("overlay_script")
  /\ Has("loaded")
  /\ nav_pc = "returned"
  /\ nav_result = "true"

\* the overlay script of the current call raised and was logged
OverlayFailed ==
  \E i \in 1..(Len(trace) - 1) :
     trace[i] = "show_overlay" /\ trace[i + 1] = "log_warning"

\* C24: when the overlay script raises, show_transition_overlay swallows the
\* error: the hold and driver.get still follow, and the call returns true
\* whenever the page load and the authentication check succeed.
C24_OverlayFailureHarmless ==
  OverlayFailed =>
    /\ nav_pc = "hold" \/ Has("hold")
    /\ nav_pc \in {"hold", "get"} \/ (Has("get") /\ Before("hold", "get"))
    /\ Count("get") <= 1
    /\ (/\ nav_pc \in {"returned", "idle"}
        /\ Has("loaded")
        /\ nav_auth => Has("check_auth") /\ check_result = "true")
         => nav_result = "true"

\* a call whose overlay script raised has passed the authentication check
\* and returned true
C24_Witness ==
  /\ OverlayFailed
  /\ nav_auth
  /\ check_result = "true"
  /\ Has("loaded")
  /\ nav_pc = "returned"
  /\ nav_result = "true"

\* position of the only occurrence of ev in the trace, 0 when there is none
Pos(ev) == IF Has(ev) THEN CHOOSE i \in 1..Len(trace) : trace[i] = ev ELSE 0

\* the events of a successful call on the overlay path, in order
OverlaySteps ==
  <<"show_overlay", "hold",
    IF overlay_setting = NoSetting THEN "slept_2.0" ELSE "slept_0.5",
    "get", "wait", "loaded">>
  \o (IF nav_auth THEN <<"check_auth">> ELSE <<>>)
  \o <<"settle">>

\* C25: a successful navigate_to_panel call on the overlay path shows the
\* overlay, holds it for transition_overlay_min_duration (2.0 s when not
\* configured), calls driver.get once with the prepared URL, waits for the
\* page load, runs the authentication check, applies the settle delay and
\* returns true, in this order; no call issues driver.get twice, and the
\* settle delay is applied only on calls that return true.
C25_OverlayPathOrder ==
  /\ Count("get") <= 1
  /\ Has("settle") => nav_result = "true"
  /\ (Has("show_overlay") /\ nav_pc \in {"returned", "idle"}
        /\ nav_result = "true")
       => /\ \A k \in 1..Len(OverlaySteps) : Count(OverlaySteps[k]) = 1
          /\ \A k \in 1..(Len(OverlaySteps) - 1) :
                Pos(OverlaySteps[k]) < Pos(OverlaySteps[k + 1])
          /\ trace[Len(trace)] = "settle"
          /\ get_url = _prepare_panel_url(nav_panel.url, grafana_kiosk_mode)

\* a call with a handler and no configured hold has gone through the overlay
\* path and returned true
C25_Witness ==
  /\ Has("show_overlay")
  /\ Has("slept_2.0")
  /\ nav_auth
  /\ Has("check_auth")
  /\ nav_pc = "returned"
  /\ nav_result = "true"

\* the events of steps (a), (b) and (c) of handle_authentication
SsoStep == {"click_sso", "raise_sso"}
FormStep == {"type_username", "type_password", "submit_login", "raise_fill"}
CodeStep == {"generate_totp", "type_otp", "submit_otp"}
AllBefore(evs1, evs2) == \A ev1 \in evs1, ev2 \in evs2 : Before(ev1, ev2)

\* the steps of one handle_authentication call come in the order (a), (b),
\* (c), (d), the form and the one-time code are submitted at most once, and
\* the one-time code is generated only with the second-factor field present
StepsInOrder ==
  /\ AllBefore(SsoStep, FormStep)
  /\ AllBefore(SsoStep, CodeStep)
  /\ AllBefore(FormStep, CodeStep)
  /\ auth_pc \in {"sso", "fill", "totp_check", "totp"}
       => wait_end = "none" /\ elapsed = 0
  /\ Count("submit_login") <= 1
  /\ Count("generate_totp") <= 1
  /\ Count("submit_otp") <= 1
  /\ auth_pc = "totp" => otp_field /\ ~Has("generate_totp")

\* C26: one handle_authentication call runs the SSO click, the credential
\* form, the one-time code and the redirect wait in this order without
\* retrying: the SSO control is clicked at most once, the credential form is
\* submitted at most once, and the one-time code is generated and submitted
\* at most once and only when the second-factor field is present after the
\* credential form.
C26_StepsOnceInOrder ==
  /\ StepsInOrder
  /\ Count("click_sso") <= 1

\* the SSO control was clicked a second time in one call
C26_ClickedTwice ==
  /\ Count("click_sso") = 2
  /\ auth_pc = "fill"

\* the address carries one of the authentication-page markers, in any case
OnAuthMarker(url) ==
  \E i \in 1..Len(url) :
     \/ LowerTok(url[i]) \in {"login", "auth.cern.ch", "oauth"}
     \/ i < Len(url) /\ url[i] = "/" /\ LowerTok(url[i + 1]) = "otp"

\* the address is one of the target application
InTargetDomain(url) == \E i \in 1..Len(url) : url[i] = "agrana.cern.ch"

\* C27: _wait_for_successful_authentication always terminates: it polls the
\* address once per second for at most 30 s, returns true at the first poll
\* whose address carries no authentication marker and is in the target
\* domain, returns false when the ceiling is reached, and never returns true
\* for an address with a marker or outside the domain.
C27_RedirectWaitTerminates ==
  /\ [](/\ elapsed <= 30
        /\ wait_end = "success"
             => ~OnAuthMarker(current_url) /\ InTargetDomain(current_url)
        /\ wait_end = "timeout" => elapsed = 30)
  /\ [][auth_pc = "wait" /\ auth_pc' = "wait"
         => /\ elapsed' = elapsed + 1
            /\ OnAuthMarker(current_url') \/ ~InTargetDomain(current_url')]_vars
  /\ (auth_pc = "wait") ~> (wait_end # "none")

\* the wait has polled for 30 s without the redirect and gives up
C27_Witness ==
  /\ auth_pc = "finish"
  /\ wait_end = "timeout"
  /\ elapsed = 30

\* C28: a navigate_to_panel call that was given an authentication handler and
\* returned true left the browser on a page that is not a login page when
\* its authentication check finished.
C28_TrueOnlyOffLoginPage ==
  nav_auth /\ nav_result = "true" /\ Has("check_auth")
    => ~is_login_page(current_url)

\* the call returned true although the redirect wait gave up on a login page
C28_TrueOnLoginPage ==
  /\ nav_auth
  /\ nav_result = "true"
  /\ wait_end = "timeout"
  /\ is_login_page(current_url)

\* C29: whenever the rotation loop is about to navigate, self.driver is a
\* session on which quit has not been called, also after a refresh_browser
\* that failed.
C29_NavigationsOnLiveSession ==
  run_pc = "nav"
    => /\ driver # 0
       /\ session[driver] = "live"
       /\ quit_calls[driver] = 0

\* the loop is about to navigate on the session that the failed refresh quit
C29_NavigatesOnQuitSession ==
  /\ run_pc = "nav"
  /\ refresh_log = "create_raised"
  /\ driver = refresh_old
  /\ session[driver] = "quit"

\* C30: over every interleaving of refresh_browser, the signal handler's
\* cleanup and the finally-cleanup of run, driver.quit is called at most once
\* on each browser session.
C30_QuitAtMostOnce == \A s \in Sessions : quit_calls[s] <= 1

\* the signal handler and the finally clause of run have both quit the
\* session
C30_QuitTwiceAtShutdown ==
  /\ run_pc = "exited"
  /\ unwinding = "SystemExit"
  /\ driver # 0
  /\ quit_calls[driver] = 2
====
